---- MODULE Spec2Model ----
(***************************************************************************)
(* Model of the link repository's HTTP handlers: the ingest handler with   *)
(* its in-memory rate limiter, URL extraction and upsert loop, against a   *)
(* document store holding the "links" collection (Spec), and the rate      *)
(* limiter called on its own (SpecLimiter).                                *)
(*                                                                         *)
(* Strings are TLA+ strings; a character of s is SubSeq(s, i, i).          *)
(* Timestamps are integers (milliseconds).  An absent numeric field of a   *)
(* request body is 0 (falsy in JavaScript like undefined), an absent       *)
(* string field is Undefined.                                              *)
(***************************************************************************)
EXTENDS Integers, Sequences, FiniteSets, TLC

(***************************************************************************)
(* Bounds of the model.                                                    *)
(***************************************************************************)
NumReqs == 2          \* ingest requests handled in one behaviour
MaxInFlight == 2      \* requests that wait for the store at one time
MaxClock == 101       \* the clock of the ingest specification stops here
MaxBursts == 3        \* bursts of admission checks in the limiter specification
MaxTicks == 2         \* advances of the clock in the limiter specification
NumRegs == 2          \* register requests

(***************************************************************************)
(* Program constants.                                                      *)
(***************************************************************************)
maxRequestsDefault == 100        \* checkRateLimit: maxRequests = 100
windowMsDefault == 3600000       \* checkRateLimit: windowMs = 3600000
BearerLen == 7                   \* auth.slice(7)

Undefined == "<undefined>"
NullDate == -1                   \* created_at: null

(***************************************************************************)
(* String helpers, computed as JavaScript computes them.                   *)
(***************************************************************************)
CharAt(s, i) == SubSeq(s, i, i)

StartsWith(s, p) == Len(s) >= Len(p) /\ SubSeq(s, 1, Len(p)) = p

Slice(s, n) == IF n >= Len(s) THEN "" ELSE SubSeq(s, n + 1, Len(s))

IndexOf(s, c) ==
  IF \E i \in 1..Len(s) : CharAt(s, i) = c
  THEN CHOOSE i \in 1..Len(s) :
         CharAt(s, i) = c /\ \A j \in 1..(i - 1) : CharAt(s, j) # c
  ELSE 0

RECURSIVE Split(_, _)
Split(s, sep) ==
  LET i == IndexOf(s, sep)
  IN IF i = 0 THEN <<s>>
     ELSE <<SubSeq(s, 1, i - 1)>> \o Split(Slice(s, i), sep)

IsSpace(c) == c \in {" ", "\t", "\n", "\r"}

RECURSIVE Trim(_)
Trim(s) ==
  IF s = "" THEN ""
  ELSE IF IsSpace(CharAt(s, 1)) THEN Trim(Slice(s, 1))
  ELSE IF IsSpace(CharAt(s, Len(s))) THEN Trim(SubSeq(s, 1, Len(s) - 1))
  ELSE s

Includes(seq, x) == \E i \in 1..Len(seq) : seq[i] = x

RECURSIVE Dedup(_)
Dedup(seq) ==
  IF seq = <<>> THEN <<>>
  ELSE LET front == Dedup(SubSeq(seq, 1, Len(seq) - 1))
           last == seq[Len(seq)]
       IN IF Includes(front, last) THEN front ELSE Append(front, last)

(***************************************************************************)
(* URL_REGEX = /https?:\/\/\S+/gi and the trailing-punctuation trim.       *)
(***************************************************************************)
Lower(c) ==
  CASE c = "H" -> "h" [] c = "T" -> "t" [] c = "P" -> "p" [] c = "S" -> "s"
    [] OTHER -> c

RECURSIVE LowerStr(_)
LowerStr(s) == IF s = "" THEN "" ELSE Lower(CharAt(s, 1)) \o LowerStr(Slice(s, 1))

HasAt(s, i, p) ==
  i + Len(p) - 1 <= Len(s) /\ LowerStr(SubSeq(s, i, i + Len(p) - 1)) = p

\* end of the run of non-whitespace characters that starts at k (k - 1 if none)
RECURSIVE RunEnd(_, _)
RunEnd(s, k) ==
  IF k > Len(s) \/ IsSpace(CharAt(s, k)) THEN k - 1 ELSE RunEnd(s, k + 1)

\* last index of the match that starts at i, 0 when there is none
MatchAt(s, i) ==
  LET k == IF HasAt(s, i, "https://") THEN i + 8
           ELSE IF HasAt(s, i, "http://") THEN i + 7
           ELSE 0
  IN IF k = 0 \/ RunEnd(s, k) < k THEN 0 ELSE RunEnd(s, k)

RECURSIVE MatchFrom(_, _)
MatchFrom(s, i) ==
  IF i > Len(s) THEN <<>>
  ELSE IF MatchAt(s, i) = 0 THEN MatchFrom(s, i + 1)
  ELSE <<SubSeq(s, i, MatchAt(s, i))>> \o MatchFrom(s, MatchAt(s, i) + 1)

URL_REGEX(s) == MatchFrom(s, 1)

TrailChars == {".", ",", ")", ";", "]", "\"", "'"}

RECURSIVE TrimTrailing(_)
TrimTrailing(u) ==
  IF u # "" /\ CharAt(u, Len(u)) \in TrailChars
  THEN TrimTrailing(SubSeq(u, 1, Len(u) - 1))
  ELSE u

ExtractUrls(tweetText) ==
  LET m == URL_REGEX(tweetText)
  IN [i \in 1..Len(m) |-> TrimTrailing(m[i])]

(***************************************************************************)
(* checkRateLimit: rateLimitMap maps a bot id to its admission timestamps. *)
(* The result is the answer and the map as the call leaves it.             *)
(***************************************************************************)
MapGet(map, botId) == IF botId \in DOMAIN map THEN map[botId] ELSE <<>>

MapSet(map, botId, v) == (botId :> v) @@ map

\* the quota compared with > where the code has >=
checkRateLimit_OneMore(map, botId, now, maxRequests, windowMs) ==
  LET requests == MapGet(map, botId)
      validRequests == SelectSeq(requests, LAMBDA time : time > now - windowMs)
  IN IF Len(validRequests) > maxRequests
     THEN [allowed |-> FALSE, map |-> MapSet(map, botId, requests)]
     ELSE [allowed |-> TRUE,
           map |-> MapSet(map, botId, Append(validRequests, now))]

\* a fixed-bucket counter: the window starts at the last multiple of windowMs
checkRateLimit_FixedBucket(map, botId, now, maxRequests, windowMs) ==
  LET windowStart == now - (now % windowMs)
      requests == MapGet(map, botId)
      validRequests == SelectSeq(requests, LAMBDA time : time >= windowStart)
  IN IF Len(validRequests) >= maxRequests
     THEN [allowed |-> FALSE, map |-> MapSet(map, botId, requests)]
     ELSE [allowed |-> TRUE,
           map |-> MapSet(map, botId, Append(validRequests, now))]

\* a denied attempt is recorded like an admitted one
checkRateLimit_RecordDenied(map, botId, now, maxRequests, windowMs) ==
  LET requests == MapGet(map, botId)
      validRequests == SelectSeq(requests, LAMBDA time : time > now - windowMs)
  IN [allowed |-> Len(validRequests) < maxRequests,
      map |-> MapSet(map, botId, Append(validRequests, now))]

\* one list of timestamps for all identities
checkRateLimit_SharedKey(map, botId, now, maxRequests, windowMs) ==
  LET requests == MapGet(map, "")
      validRequests == SelectSeq(requests, LAMBDA time : time > now - windowMs)
  IN IF Len(validRequests) >= maxRequests
     THEN [allowed |-> FALSE, map |-> MapSet(map, "", requests)]
     ELSE [allowed |-> TRUE,
           map |-> MapSet(map, "", Append(validRequests, now))]

\* the admission is answered but not recorded
checkRateLimit_NoRecord(map, botId, now, maxRequests, windowMs) ==
  LET requests == MapGet(map, botId)
      validRequests == SelectSeq(requests, LAMBDA time : time > now - windowMs)
  IN [allowed |-> Len(validRequests) < maxRequests,
      map |-> MapSet(map, botId, requests)]

checkRateLimit(map, botId, now, maxRequests, windowMs) ==
  LET windowStart == now - windowMs
      requests == MapGet(map, botId)
      validRequests == SelectSeq(requests, LAMBDA time : time > windowStart)
  IN IF Len(validRequests) >= maxRequests
     THEN [allowed |-> FALSE, map |-> MapSet(map, botId, requests)]
     ELSE [allowed |-> TRUE,
           map |-> MapSet(map, botId, Append(validRequests, now))]

(***************************************************************************)
(* Inputs of the ingest handler.                                           *)
(***************************************************************************)
VARIABLE VALID_TOKENS                \* process.env.VALID_TOKENS

TextA == "see http://x.test/a. and http://x.test/a,"
TextAB == "http://x.test/a HTTPS://y.test/b)"
TextNone == "no link here"

EmptyBody ==
  [tweet_text |-> Undefined, tweet_id |-> Undefined, author_id |-> Undefined,
   created_at |-> 0, severity_score |-> 0, categories |-> <<>>,
   matched_keywords |-> <<>>, source_account |-> Undefined,
   collection_method |-> Undefined]

\* the bodies posted: one url written twice, by a tweet without metadata;
\* two urls, by a tweet with every field; no tweet_id; no url
BodyA == [EmptyBody EXCEPT !.tweet_text = TextA, !.tweet_id = "1"]

BodyAB ==
  [EmptyBody EXCEPT !.tweet_text = TextAB, !.tweet_id = "2",
                    !.author_id = "u", !.created_at = 50,
                    !.severity_score = 8, !.categories = <<"c">>,
                    !.matched_keywords = <<"k">>, !.source_account = "s",
                    !.collection_method = "live"]

BodyNoId == [EmptyBody EXCEPT !.tweet_text = TextA]

BodyNoUrl == [EmptyBody EXCEPT !.tweet_text = TextNone, !.tweet_id = "3"]

Request(method, auth, body) ==
  [method |-> method, auth |-> auth, ip |-> Undefined, body |-> body]

\* the requests sent to the ingest handler: method, authorization header,
\* req.ip and body.  Bot "a" posts the tweet with one url, bot "b" the
\* tweet with two.
Requests ==
  { Request("GET", "Bearer a.1", EmptyBody),
    Request("POST", "", EmptyBody),
    Request("POST", "Bearer a.x", EmptyBody),
    Request("POST", "Bearer a.1", BodyNoId),
    Request("POST", "Bearer a.1", BodyNoUrl),
    Request("POST", "Bearer a.1", BodyA),
    Request("POST", "Bearer b.1", BodyAB) }

FalsyStr(v) == v \in {Undefined, ""}

\* the first part of the token and nothing else
DeriveBotId_NoFallback(token, ip) == Split(token, ".")[1]

\* token.split('.')[0] || req.ip || 'anonymous'
DeriveBotId(token, ip) ==
  LET first == Split(token, ".")[1]
  IN IF ~FalsyStr(first) THEN first
     ELSE IF ~FalsyStr(ip) THEN ip
     ELSE "anonymous"

\* the list as split, blank entries kept
validTokens_NoFilter == Split(VALID_TOKENS, ",")

\* (process.env.VALID_TOKENS || '').split(',').filter(t => t.trim())
validTokens == SelectSeq(Split(VALID_TOKENS, ","), LAMBDA t : Trim(t) # "")

\* the metadata object of one loop iteration
Metadata(body, botId, now) ==
  [tweet_id |-> body.tweet_id,
   author_id |-> body.author_id,
   created_at |-> IF body.created_at # 0 THEN body.created_at ELSE NullDate,
   severity_score |-> body.severity_score,
   categories |-> body.categories,
   matched_keywords |-> body.matched_keywords,
   source_account |-> body.source_account,
   collection_method |->
     IF FalsyStr(body.collection_method) THEN "api_upload"
     ELSE body.collection_method,
   tweet_text |-> body.tweet_text,
   bot_id |-> botId,
   updated_at |-> now]

(***************************************************************************)
(* State.                                                                  *)
(*   links          the "links" collection, in insertion order             *)
(*   uniqueIndex    whether the unique index on url exists                 *)
(*   conflictPolicy what the store does with an update document that names *)
(*                  one path (created_at) under both $set and $setOnInsert:*)
(*                  MongoDB rejects the document ("reject"); a compatible  *)
(*                  server that does not validate applies the operators    *)
(*                  in the order written, $set after $setOnInsert          *)
(*                  ("apply"); the connection string decides which         *)
(*   client         the module-global MongoClient has been created         *)
(*   rateLimitMap   the module-global map of checkRateLimit                *)
(*   clock          Date.now()                                             *)
(*   req            the position, locals and response of each request      *)
(* Observer (not program state):                                           *)
(*   obs            per url: identity, server time and body of the ingest  *)
(*                  whose updateOne inserted first and of the one whose    *)
(*                  updateOne returned last, how many                      *)
(*                  calls returned with each outcome, for whom, and        *)
(*                  whether each returned while no other request was       *)
(*                  being handled (alone)                                  *)
(*   history        of the limiter specification: per identity the bursts  *)
(*                  of checkRateLimit calls made, each with its            *)
(*                  millisecond and its answers in order, and how often    *)
(*                  the clock was advanced                                 *)
(*   received       the request each run of the ingest handler was called  *)
(*                  with                                                   *)
(* The read side:                                                          *)
(*   reader         the position, locals and response of a request to the  *)
(*                  stats handler or to the links handler                  *)
(* VALID_TOKENS, declared with the inputs, is the allow-list the process   *)
(* was started with.                                                       *)
(***************************************************************************)
VARIABLES links, uniqueIndex, conflictPolicy, client, rateLimitMap, clock,
          req, obs, history, received, reader, served,
          registered_bots, registerClient, reg

vars == <<links, uniqueIndex, conflictPolicy, VALID_TOKENS, client,
          rateLimitMap, clock, req, obs, history, received, reader, served,
          registered_bots, registerClient, reg>>

Reqs == 1..NumReqs
Regs == 1..NumRegs
StartClock == maxRequestsDefault      \* the millisecond after the admissions of Init
ConflictPolicies == {"reject", "apply"}
MONGODB_URI == "mongodb://store"

NoResp == [status |-> 0]
IdleReq ==
  [pc |-> "idle", botId |-> "", body |-> EmptyBody,
   urls |-> <<>>, todo |-> <<>>, now |-> 0, inserted |-> 0, updated |-> 0,
   resp |-> NoResp]

EmptyMap == [k \in {} |-> <<>>]
NoHistory == [bursts |-> EmptyMap, ticks |-> 0]
NoRequest == [method |-> ""]

\* a register request that has not been made
IdleReg ==
  [pc |-> "idle", method |-> "", auth |-> "", botName |-> Undefined,
   owner |-> Undefined, description |-> Undefined, botId |-> "",
   token |-> "", resp |-> NoResp]

\* req.query of a read request; a parameter that is not sent is Undefined
NoQuery ==
  [page |-> Undefined, limit |-> Undefined, search |-> Undefined,
   severity |-> Undefined, dateFrom |-> Undefined, dateTo |-> Undefined]

\* the read side: the module-level clients of the stats and the links
\* handler, and the read request being served
IdleReader ==
  [pc |-> "idle", op |-> "", statsClient |-> FALSE, linksClient |-> FALSE,
   query |-> NoQuery, startOfToday |-> 0, pageNum |-> 0, limitNum |-> 0,
   skip |-> 0, totalCount |-> 0, resp |-> NoResp]

Fill(n) == [i \in 1..n |-> i]       \* n admissions, one per millisecond

\* The process has served bot "b" all through the last hour: one admission
\* of its quota is left.  Bot "a" has not been seen.
InitialAdmissions(bot) == IF bot = "b" THEN maxRequestsDefault - 1 ELSE 0

Init ==
  /\ links = <<>>
  /\ uniqueIndex = FALSE
  /\ conflictPolicy \in ConflictPolicies
  /\ client = FALSE
  /\ rateLimitMap = [k \in {"b"} |-> Fill(InitialAdmissions("b"))]
  /\ clock = StartClock
  /\ req = [r \in Reqs |-> IdleReq]
  /\ obs = EmptyMap
  /\ history = NoHistory
  /\ VALID_TOKENS = "a.1,b.1"
  /\ received = [r \in Reqs |-> NoRequest]
  /\ reader = IdleReader
  /\ served = {}
  /\ registered_bots = <<>>
  /\ registerClient = FALSE
  /\ reg = [g \in Regs |-> IdleReg]

(***************************************************************************)
(* The store's updateOne({url}, {$setOnInsert, $set, $addToSet},           *)
(* {upsert: true}).                                                        *)
(***************************************************************************)
Matching(col, url) == {i \in 1..Len(col) : col[i].url = url}

FirstMatch(col, url) ==
  CHOOSE i \in Matching(col, url) : \A j \in Matching(col, url) : i <= j

\* a $set where the handler has $addToSet
AddToSet_Overwrite(arr, x) == <<x>>

AddToSet(arr, x) == IF Includes(arr, x) THEN arr ELSE Append(arr, x)

\* the metadata under $setOnInsert: a stored document keeps what it has
ApplyUpdate_KeepStored(doc, metadata, botId) ==
  [doc EXCEPT !.seen_by_bots = AddToSet(@, botId)]

\* the update without its $addToSet
ApplyUpdate_SetOnly(doc, metadata, botId) ==
  [f \in DOMAIN doc |-> IF f \in DOMAIN metadata THEN metadata[f] ELSE doc[f]]

\* an update that writes bot_id and updated_at apart from the other fields
ApplyUpdate_Partial(doc, metadata, botId) ==
  [doc EXCEPT !.bot_id = metadata.bot_id,
              !.updated_at = metadata.updated_at,
              !.seen_by_bots = AddToSet(@, botId)]

\* $set: metadata and $addToSet: {seen_by_bots: botId} on a stored document
ApplyUpdate(doc, metadata, botId) ==
  [f \in DOMAIN doc |->
     IF f \in DOMAIN metadata THEN metadata[f]
     ELSE IF f = "seen_by_bots" THEN AddToSet(doc.seen_by_bots, botId)
     ELSE doc[f]]

\* the $setOnInsert document of the handler
SetOnInsert(url, botId, now) ==
  [url |-> url, created_at |-> now, first_seen_bot |-> botId]

\* the document an upsert inserts: the query's {url}, then $setOnInsert,
\* then $set (which overwrites a path both name), then $addToSet
NewDoc(url, metadata, botId, now) ==
  [f \in {"url"} \cup DOMAIN SetOnInsert(url, botId, now)
          \cup DOMAIN metadata \cup {"seen_by_bots"} |->
     IF f \in DOMAIN metadata THEN metadata[f]
     ELSE IF f \in DOMAIN SetOnInsert(url, botId, now)
     THEN SetOnInsert(url, botId, now)[f]
     ELSE IF f = "seen_by_bots" THEN <<botId>>
     ELSE url]

\* some path is named by $setOnInsert and by $set
OperatorsConflict(metadata) ==
  DOMAIN SetOnInsert("", "", 0) \cap DOMAIN metadata # {}

(***************************************************************************)
(* The ingest handler.  JavaScript runs a handler without interruption     *)
(* from one await that waits for I/O to the next, so each action is one    *)
(* such stretch.  An await of a promise that is already resolved (getClient*)
(* with the client created) resumes before any other request's code runs.  *)
(***************************************************************************)
\* res.status(..).json(..): the request ends; of its locals the model keeps
\* the bot id it was handled under
Respond(r, botId, resp) ==
  req' = [req EXCEPT ![r] = [IdleReq EXCEPT !.pc = "done", !.botId = botId,
                                            !.resp = resp]]

ServerError == [status |-> 500, error |-> "Server error"]

InFlight == {o \in Reqs : req[o].pc \notin {"idle", "done"}}

OthersEnded(r) == InFlight \ {r} = {}

\* the handler with getClient() called on entry, before the method check
HandlerStart_ConnectFirst(r, method, auth, ip, body) ==
  /\ req[r].pc = "idle"
  /\ IF r = 1 THEN TRUE ELSE req[r - 1].pc # "idle"
  /\ UNCHANGED <<links, uniqueIndex, conflictPolicy, VALID_TOKENS, clock,
                 obs, history, reader, served,
                 registered_bots, registerClient, reg>>
  /\ received' = [received EXCEPT ![r] =
                    [method |-> method, auth |-> auth, ip |-> ip,
                     body |-> body]]
  /\ IF method # "POST"
     THEN /\ Respond(r, "", [status |-> 405, error |-> "Method not allowed"])
          /\ UNCHANGED rateLimitMap /\ client' = TRUE
     ELSE IF ~StartsWith(auth, "Bearer ")
     THEN /\ Respond(r, "", [status |-> 401,
                              error |-> "Bearer token required"])
          /\ UNCHANGED rateLimitMap /\ client' = TRUE
     ELSE
       LET token == Slice(auth, BearerLen)
           botId == DeriveBotId(token, ip)
           rl == checkRateLimit(rateLimitMap, botId, clock,
                                maxRequestsDefault, windowMsDefault)
           urls == ExtractUrls(body.tweet_text)
       IN /\ rateLimitMap' = rl.map
          /\ IF ~rl.allowed
             THEN /\ Respond(r, botId, [status |-> 429,
                                 error |-> "Rate limit exceeded"])
                  /\ client' = TRUE
             ELSE IF ~Includes(validTokens, token)
             THEN /\ Respond(r, botId, [status |-> 401,
                                        error |-> "Invalid token"])
                  /\ client' = TRUE
             ELSE IF FalsyStr(body.tweet_text) \/ FalsyStr(body.tweet_id)
             THEN /\ Respond(r, botId, [status |-> 400,
                                 error |-> "Missing required fields"])
                  /\ client' = TRUE
             ELSE IF Len(urls) = 0
             THEN /\ Respond(r, botId, [status |-> 200, success |-> TRUE,
                                 inserted |-> 0,
                                 message |-> "No URLs found in tweet"])
                  /\ client' = TRUE
             ELSE IF MONGODB_URI = ""
             THEN Respond(r, botId, ServerError) /\ client' = TRUE
             ELSE /\ Cardinality(InFlight) < MaxInFlight
                  /\ client' = TRUE
                  /\ req' = [req EXCEPT
                       ![r].pc = IF client THEN "index" ELSE "connect",
                       ![r].botId = botId, ![r].body = body,
                       ![r].urls = urls]

\* from the method check to the first await that waits: client.connect() of
\* getClient when this request creates the client, else createIndex
HandlerStart(r, method, auth, ip, body) ==
  /\ req[r].pc = "idle"
  /\ IF r = 1 THEN TRUE ELSE req[r - 1].pc # "idle"
  /\ UNCHANGED <<links, uniqueIndex, conflictPolicy, VALID_TOKENS, clock,
                 obs, history, reader, served,
                 registered_bots, registerClient, reg>>
  /\ received' = [received EXCEPT ![r] =
                    [method |-> method, auth |-> auth, ip |-> ip,
                     body |-> body]]
  /\ IF method # "POST"
     THEN /\ Respond(r, "", [status |-> 405, error |-> "Method not allowed"])
          /\ UNCHANGED <<rateLimitMap, client>>
     ELSE IF ~StartsWith(auth, "Bearer ")
     THEN /\ Respond(r, "", [status |-> 401,
                              error |-> "Bearer token required"])
          /\ UNCHANGED <<rateLimitMap, client>>
     ELSE
       LET token == Slice(auth, BearerLen)
           botId == DeriveBotId(token, ip)
           rl == checkRateLimit(rateLimitMap, botId, clock,
                                maxRequestsDefault, windowMsDefault)
           urls == ExtractUrls(body.tweet_text)
       IN /\ rateLimitMap' = rl.map
          /\ IF ~rl.allowed
             THEN /\ Respond(r, botId, [status |-> 429,
                                 error |-> "Rate limit exceeded"])
                  /\ UNCHANGED client
             ELSE IF ~Includes(validTokens, token)
             THEN /\ Respond(r, botId, [status |-> 401,
                                        error |-> "Invalid token"])
                  /\ UNCHANGED client
             ELSE IF FalsyStr(body.tweet_text) \/ FalsyStr(body.tweet_id)
             THEN /\ Respond(r, botId, [status |-> 400,
                                 error |-> "Missing required fields"])
                  /\ UNCHANGED client
             ELSE IF Len(urls) = 0
             THEN /\ Respond(r, botId, [status |-> 200, success |-> TRUE,
                                 inserted |-> 0,
                                 message |-> "No URLs found in tweet"])
                  /\ UNCHANGED client
             ELSE IF MONGODB_URI = ""
             THEN Respond(r, botId, ServerError) /\ UNCHANGED client
             ELSE /\ Cardinality(InFlight) < MaxInFlight
                  /\ client' = TRUE
                  /\ req' = [req EXCEPT
                       ![r].pc = IF client THEN "index" ELSE "connect",
                       ![r].botId = botId, ![r].body = body,
                       ![r].urls = urls]

\* await client.connect() returns or throws
Connect(r, ok) ==
  /\ req[r].pc = "connect"
  /\ IF ok THEN req' = [req EXCEPT ![r].pc = "index"]
     ELSE Respond(r, req[r].botId, ServerError)
  /\ UNCHANGED <<links, uniqueIndex, conflictPolicy, VALID_TOKENS, client,
                 rateLimitMap, clock, obs, history, received, reader, served,
                 registered_bots, registerClient, reg>>

HasDuplicates(col) ==
  \E i, j \in 1..Len(col) : i # j /\ col[i].url = col[j].url

\* EnsureIndexes with the try block removed: a createIndex failure reaches
\* the outer catch and ends the request with 500
EnsureIndexes_Fatal(r, ok) ==
  /\ req[r].pc = "index"
  /\ uniqueIndex' = (uniqueIndex \/ (ok /\ ~HasDuplicates(links)))
  /\ IF ok
     THEN req' = [req EXCEPT ![r].pc = "merge", ![r].now = clock,
                             ![r].inserted = 0, ![r].updated = 0,
                             ![r].todo = Dedup(req[r].urls)]
     ELSE Respond(r, req[r].botId, ServerError)
  /\ UNCHANGED <<links, conflictPolicy, VALID_TOKENS, client, rateLimitMap,
                 clock, obs, history, received, reader, served,
                 registered_bots, registerClient, reg>>

\* the try block around the createIndex calls: a failure is logged and
\* swallowed; of the four indexes only the unique one on url changes what
\* the store does, and it cannot be built over duplicates.  The stretch ends
\* at the first updateOne, after now = new Date() and the loop set-up.
EnsureIndexes(r, ok) ==
  /\ req[r].pc = "index"
  /\ uniqueIndex' = (uniqueIndex \/ (ok /\ ~HasDuplicates(links)))
  /\ req' = [req EXCEPT ![r].pc = "merge", ![r].now = clock,
                        ![r].inserted = 0, ![r].updated = 0,
                        ![r].todo = Dedup(req[r].urls)]
  /\ UNCHANGED <<links, conflictPolicy, VALID_TOKENS, client, rateLimitMap,
                 clock, obs, history, received, reader, served,
                 registered_bots, registerClient, reg>>

\* what the observer notes when updateOne returns
Observe(o, url, call, outcome, alone) ==
  LET old == IF url \in DOMAIN o THEN o[url]
             ELSE [first |-> call, last |-> call, ins |-> 0,
                   upd |-> 0, noop |-> 0, bots |-> {}, alone |-> TRUE]
  IN MapSet(o, url,
       [old EXCEPT !.last = call,
                   !.ins = @ + (IF outcome = "inserted" THEN 1 ELSE 0),
                   !.upd = @ + (IF outcome = "updated" THEN 1 ELSE 0),
                   !.noop = @ + (IF outcome = "noop" THEN 1 ELSE 0),
                   !.bots = @ \cup {call.bot},
                   !.alone = @ /\ alone])

\* the handler's continuation after updateOne returned for the head of todo:
\* the counters, then the next updateOne or the response
AfterUpdate(r, outcome) ==
  LET q == req[r]
      ins == q.inserted + (IF outcome = "inserted" THEN 1 ELSE 0)
      upd == q.updated + (IF outcome = "updated" THEN 1 ELSE 0)
  IN /\ obs' = Observe(obs, Head(q.todo),
                       [bot |-> q.botId, now |-> q.now, body |-> q.body],
                       outcome, OthersEnded(r))
     /\ IF Len(q.todo) = 1
        THEN req' = [req EXCEPT ![r] =
                       [IdleReq EXCEPT !.pc = "done", !.botId = q.botId,
                          !.resp = [status |-> 200, success |-> TRUE,
                                    inserted |-> ins, updated |-> upd,
                                    processed_urls |-> Len(q.urls),
                                    bot_id |-> q.botId]]]
        ELSE req' = [req EXCEPT ![r].pc = "merge", ![r].todo = Tail(q.todo),
                       ![r].inserted = ins, ![r].updated = upd]

\* the update of the first stored document with this url; modifiedCount is
\* 1 when the document changed
UpdateExisting(r) ==
  LET q == req[r]
      i == FirstMatch(links, Head(q.todo))
      doc == ApplyUpdate(links[i], Metadata(q.body, q.botId, q.now), q.botId)
  IN /\ links' = [links EXCEPT ![i] = doc]
     /\ AfterUpdate(r, IF doc # links[i] THEN "updated" ELSE "noop")

\* updateOne reaches the store: rejected, failed, applied to a stored
\* document, or (no document matches) carried on as an insert
UpdateOne(r, ok) ==
  /\ req[r].pc = "merge"
  /\ UNCHANGED <<uniqueIndex, conflictPolicy, VALID_TOKENS, client,
                 rateLimitMap, clock, history, received, reader, served,
                 registered_bots, registerClient, reg>>
  /\ IF ~ok \/ (conflictPolicy = "reject" /\
                OperatorsConflict(Metadata(req[r].body, req[r].botId,
                                           req[r].now)))
     THEN Respond(r, req[r].botId, ServerError) /\ UNCHANGED <<links, obs>>
     ELSE IF Matching(links, Head(req[r].todo)) # {}
     THEN UpdateExisting(r)
     ELSE /\ req' = [req EXCEPT ![r].pc = "insert"]
          /\ UNCHANGED <<links, obs>>

\* the insert half of an upsert that matched no document.  Without the
\* unique index it inserts whatever was stored meanwhile; with it, a
\* duplicate key makes the store retry the operation as an update, or
\* report the error (older servers).
UpsertInsert(r, retry) ==
  LET q == req[r]
      url == Head(q.todo)
  IN /\ q.pc = "insert"
     /\ UNCHANGED <<uniqueIndex, conflictPolicy, VALID_TOKENS, client,
                    rateLimitMap, clock, history, received, reader, served,
                 registered_bots, registerClient, reg>>
     /\ IF uniqueIndex /\ Matching(links, url) # {}
        THEN IF retry THEN UpdateExisting(r)
             ELSE Respond(r, q.botId, ServerError) /\ UNCHANGED <<links, obs>>
        ELSE /\ links' = Append(links,
                   NewDoc(url, Metadata(q.body, q.botId, q.now), q.botId,
                          q.now))
             /\ AfterUpdate(r, "inserted")

Tick ==
  /\ clock < MaxClock
  /\ clock' = clock + 1
  /\ UNCHANGED <<links, uniqueIndex, conflictPolicy, VALID_TOKENS, client,
                 rateLimitMap, req, obs, history, received, reader, served,
                 registered_bots, registerClient, reg>>

Next ==
  \/ \E r \in Reqs, in \in Requests :
        HandlerStart(r, in.method, in.auth, in.ip, in.body)
  \/ \E r \in Reqs, ok \in BOOLEAN : Connect(r, ok)
  \/ \E r \in Reqs, ok \in BOOLEAN : EnsureIndexes(r, ok)
  \/ \E r \in Reqs, ok \in BOOLEAN : UpdateOne(r, ok)
  \/ \E r \in Reqs, retry \in BOOLEAN : UpsertInsert(r, retry)
  \/ Tick

Spec == Init /\ [][Next]_vars

TypeOK ==
  /\ uniqueIndex \in BOOLEAN
  /\ clock \in StartClock..MaxClock
  /\ \A r \in Reqs :
       req[r].pc \in {"idle", "connect", "index", "merge", "insert", "done"}

(***************************************************************************)
(* The limiter on its own: identities call checkRateLimit with its default *)
(* quota and window while the clock advances by a millisecond or by a      *)
(* millisecond less than the window.                                       *)
(***************************************************************************)
Identities == {"a", "b"}
\* an identity calls once, and identity "a" also a quota's worth of times
\* within one millisecond
BurstSizes(botId) == IF botId = "a" THEN {1, maxRequestsDefault} ELSE {1}
Steps == {1, windowMsDefault - 1}

\* n calls of checkRateLimit(botId), one after the other within the
\* millisecond now: the map they leave and their answers in order (the
\* first half of the calls, then the rest on the map the first half left)
RECURSIVE Burst(_, _, _, _)
Burst(map, botId, now, n) ==
  IF n = 1
  THEN LET rl == checkRateLimit(map, botId, now,
                                maxRequestsDefault, windowMsDefault)
       IN [answers |-> <<rl.allowed>>, map |-> rl.map]
  ELSE LET first == Burst(map, botId, now, n \div 2)
           rest == Burst(first.map, botId, now, n - (n \div 2))
       IN [answers |-> first.answers \o rest.answers, map |-> rest.map]

InitLimiter ==
  /\ links = <<>>
  /\ uniqueIndex = FALSE
  /\ conflictPolicy = "reject"
  /\ client = FALSE
  /\ rateLimitMap = EmptyMap
  /\ clock = 0
  /\ req = [r \in Reqs |-> IdleReq]
  /\ obs = EmptyMap
  /\ history = NoHistory
  /\ VALID_TOKENS = "a.1,b.1"
  /\ received = [r \in Reqs |-> NoRequest]
  /\ reader = IdleReader
  /\ served = {}
  /\ registered_bots = <<>>
  /\ registerClient = FALSE
  /\ reg = [g \in Regs |-> IdleReg]

BurstsMade ==
  Cardinality({<<bot, k>> \in Identities \X (1..MaxBursts) :
                 k <= Len(MapGet(history.bursts, bot))})

LimiterCheck(botId, n) ==
  LET b == Burst(rateLimitMap, botId, clock, n)
  IN /\ BurstsMade < MaxBursts
     /\ rateLimitMap' = b.map
     /\ history' = [history EXCEPT !.bursts =
                      MapSet(@, botId,
                             Append(MapGet(@, botId),
                                    [t |-> clock, answers |-> b.answers]))]
     /\ UNCHANGED <<links, uniqueIndex, conflictPolicy, VALID_TOKENS, client,
                    clock, req, obs, received, reader, served,
                 registered_bots, registerClient, reg>>

\* Date.now() has moved on by d milliseconds
LimiterTick(d) ==
  /\ history.ticks < MaxTicks
  /\ clock' = clock + d
  /\ history' = [history EXCEPT !.ticks = @ + 1]
  /\ UNCHANGED <<links, uniqueIndex, conflictPolicy, VALID_TOKENS, client,
                 rateLimitMap, req, obs, received, reader, served,
                 registered_bots, registerClient, reg>>

NextLimiter ==
  \/ \E botId \in Identities : \E n \in BurstSizes(botId) :
        LimiterCheck(botId, n)
  \/ \E d \in Steps : LimiterTick(d)

SpecLimiter == InitLimiter /\ [][NextLimiter]_vars

(***************************************************************************)
(* The ingest handler, one request after the other, called with every kind *)
(* of method, authorization header, credential and body, by a process that *)
(* was started with or without an allow-list and has served identity "a"   *)
(* up to one admission short of its quota.  The store is up: connect and   *)
(* the store's operations return.                                          *)
(***************************************************************************)
TextPunct == "(HTTP://x.test/a)\"]; then http://x.test/a'. ftp://n.test http://"

BodyNoText == [EmptyBody EXCEPT !.tweet_id = "4"]

BodyEmptyId == [EmptyBody EXCEPT !.tweet_text = TextA, !.tweet_id = ""]

BodyPunct == [EmptyBody EXCEPT !.tweet_text = TextPunct, !.tweet_id = "5"]

From(ip, in) == [in EXCEPT !.ip = ip]

GateRequests ==
  { Request("GET", "Bearer a.1", BodyA),
    Request("POST", "", BodyA),
    Request("POST", "Basic a.1", BodyA),
    Request("POST", "Bearer ", BodyA),
    From("9.9.9.9", Request("POST", "Bearer ", BodyA)),
    From("9.9.9.9", Request("POST", "Bearer .x", BodyA)),
    Request("POST", "Bearer a", BodyA),
    Request("POST", "Bearer a.x", BodyA),
    Request("POST", "Bearer a.1.2", BodyA),
    Request("POST", "Bearer a.1", BodyA),
    Request("POST", "Bearer a.1", BodyNoId),
    Request("POST", "Bearer a.1", BodyEmptyId),
    Request("POST", "Bearer a.1", BodyNoText),
    Request("POST", "Bearer a.1", BodyNoUrl),
    Request("POST", "Bearer a.1", BodyPunct),
    Request("POST", "Bearer b.1", BodyAB) }

AllowLists == {"a.1,b.1", ""}

GateAdmissions(bot) == IF bot = "a" THEN maxRequestsDefault - 1 ELSE 0

InitGate ==
  /\ links = <<>>
  /\ uniqueIndex = FALSE
  /\ conflictPolicy \in ConflictPolicies
  /\ VALID_TOKENS \in AllowLists
  /\ client = FALSE
  /\ rateLimitMap = [k \in {"a"} |-> Fill(GateAdmissions("a"))]
  /\ clock = StartClock
  /\ req = [r \in Reqs |-> IdleReq]
  /\ obs = EmptyMap
  /\ history = NoHistory
  /\ received = [r \in Reqs |-> NoRequest]
  /\ reader = IdleReader
  /\ served = {}
  /\ registered_bots = <<>>
  /\ registerClient = FALSE
  /\ reg = [g \in Regs |-> IdleReg]

\* a request arrives when the one before it has been answered
GateStart(r, in) ==
  /\ InFlight = {}
  /\ HandlerStart(r, in.method, in.auth, in.ip, in.body)

NextGate ==
  \/ \E r \in Reqs, in \in GateRequests : GateStart(r, in)
  \/ \E r \in Reqs : Connect(r, TRUE)
  \/ \E r \in Reqs, ok \in BOOLEAN : EnsureIndexes(r, ok)
  \/ \E r \in Reqs : UpdateOne(r, TRUE)
  \/ \E r \in Reqs : UpsertInsert(r, TRUE)

SpecGate == InitGate /\ [][NextGate]_vars

(***************************************************************************)
(* The read side: the stats handler and the links handler, each with its   *)
(* own module-level client, reading the collection the ingest handler      *)
(* writes.  Every await is the end of a step, so ingests may run between   *)
(* the steps of a read.                                                    *)
(***************************************************************************)
DefaultLimit == 50
MaxItemsPerPage == 100
LegacyLimit == 500
HighFrom == 7
MediumFrom == 4
DayMs == 86400000

MathMax(a, b) == IF a >= b THEN a ELSE b

MathMin(a, b) == IF a <= b THEN a ELSE b

DigitVal(c) ==
  CASE c = "0" -> 0 [] c = "1" -> 1 [] c = "2" -> 2 [] c = "3" -> 3
    [] c = "4" -> 4 [] c = "5" -> 5 [] c = "6" -> 6 [] c = "7" -> 7
    [] c = "8" -> 8 [] c = "9" -> 9 [] OTHER -> -1

IsDigitAt(s, i) == i <= Len(s) /\ DigitVal(CharAt(s, i)) >= 0

RECURSIVE SkipSpace(_, _)
SkipSpace(s, i) ==
  IF i <= Len(s) /\ IsSpace(CharAt(s, i)) THEN SkipSpace(s, i + 1) ELSE i

RECURSIVE DigitsFrom(_, _, _)
DigitsFrom(s, i, acc) ==
  IF IsDigitAt(s, i)
  THEN DigitsFrom(s, i + 1, acc * 10 + DigitVal(CharAt(s, i)))
  ELSE acc

NaN == [nan |-> TRUE, n |-> 0]

\* parseInt(s, 10): leading white space, an optional sign, then the longest
\* run of decimal digits; NaN when there is no digit
ParseInt(s) ==
  LET i == SkipSpace(s, 1)
      signed == i <= Len(s) /\ CharAt(s, i) \in {"-", "+"}
      j == IF signed THEN i + 1 ELSE i
  IN IF ~IsDigitAt(s, j) THEN NaN
     ELSE [nan |-> FALSE,
           n |-> IF signed /\ CharAt(s, i) = "-"
                 THEN 0 - DigitsFrom(s, j, 0) ELSE DigitsFrom(s, j, 0)]

\* x || d for a number x: NaN and 0 are falsy
OrElse(x, d) == IF x.nan \/ x.n = 0 THEN d ELSE x.n

\* the default of the destructuring: only for a parameter that is absent
Default(v, d) == IF v = Undefined THEN d ELSE v

PageNum(query) ==
  MathMax(1, OrElse(ParseInt(Default(query.page, "1")), 1))

LimitNum(query) ==
  MathMin(MaxItemsPerPage,
          MathMax(1, OrElse(ParseInt(Default(query.limit, "50")),
                            DefaultLimit)))

Skip(query) == (PageNum(query) - 1) * LimitNum(query)

UpperCase == "ABCDEFGHIJKLMNOPQRSTUVWXYZ"
LowerCase == "abcdefghijklmnopqrstuvwxyz"

\* one character under the regex option i
FoldCase(c) ==
  IF \E k \in 1..Len(UpperCase) : CharAt(UpperCase, k) = c
  THEN CharAt(LowerCase, CHOOSE k \in 1..Len(UpperCase) :
                           CharAt(UpperCase, k) = c)
  ELSE c

\* the pattern matches the text at position i.  The patterns sent are made
\* of letters, digits, ':' and '/', which stand for themselves, and '.',
\* which stands for any character.
RegexAt(text, i, pattern) ==
  /\ i + Len(pattern) - 1 <= Len(text)
  /\ \A k \in 1..Len(pattern) :
       \/ CharAt(pattern, k) = "."
       \/ FoldCase(CharAt(pattern, k)) = FoldCase(CharAt(text, i + k - 1))

\* {$regex: pattern, $options: 'i'}
RegexTest(text, pattern) ==
  \E i \in 1..(Len(text) + 1) : RegexAt(text, i, pattern)

\* new Date(day + 'T00:00:00.000Z') for a day of January 1970, written
\* 1970-01-DD; the read requests sent carry no other date
DayStart(day) ==
  (DigitVal(CharAt(day, 9)) * 10 + DigitVal(CharAt(day, 10)) - 1) * DayMs

\* the filter object built from the query
Filter(query) ==
  [search |-> Trim(Default(query.search, "")),
   severity |-> Default(query.severity, ""),
   dateFrom |-> Default(query.dateFrom, ""),
   dateTo |-> Default(query.dateTo, "")]

\* the filter with the high bucket starting above 7
MatchesFilter_HighAbove(doc, f) ==
  /\ f.search # "" => RegexTest(doc.url, f.search)
  /\ f.severity = "high" => doc.severity_score > HighFrom
  /\ f.severity = "medium" =>
       (doc.severity_score >= MediumFrom /\ doc.severity_score < HighFrom)
  /\ f.severity = "low" => doc.severity_score < MediumFrom
  /\ f.dateFrom # "" =>
       (doc.created_at # NullDate /\ doc.created_at >= DayStart(f.dateFrom))
  /\ f.dateTo # "" =>
       (doc.created_at # NullDate
        /\ doc.created_at <= DayStart(f.dateTo) + DayMs - 1)

\* a comparison with a date holds for no document whose created_at is null
MatchesFilter(doc, f) ==
  /\ f.search # "" => RegexTest(doc.url, f.search)
  /\ f.severity = "high" => doc.severity_score >= HighFrom
  /\ f.severity = "medium" =>
       (doc.severity_score >= MediumFrom /\ doc.severity_score < HighFrom)
  /\ f.severity = "low" => doc.severity_score < MediumFrom
  /\ f.dateFrom # "" =>
       (doc.created_at # NullDate /\ doc.created_at >= DayStart(f.dateFrom))
  /\ f.dateTo # "" =>
       (doc.created_at # NullDate
        /\ doc.created_at <= DayStart(f.dateTo) + DayMs - 1)

Found(col, f) == {i \in 1..Len(col) : MatchesFilter(col[i], f)}

\* sort {updated_at: -1, created_at: -1}: a comes before b
\* the sort with its keys exchanged: created_at first
SortsBefore_CreatedFirst(a, b) ==
  \/ a.created_at > b.created_at
  \/ a.created_at = b.created_at /\ a.updated_at >= b.updated_at

SortsBefore(a, b) ==
  \/ a.updated_at > b.updated_at
  \/ a.updated_at = b.updated_at /\ a.created_at >= b.created_at

StrictlyBefore(a, b) == SortsBefore(a, b) /\ ~SortsBefore(b, a)

\* the matching documents in the order of the sort, documents with equal
\* keys in some order
Sorted(col, f) ==
  SortSeq(SelectSeq([i \in 1..Len(col) |-> i],
                    LAMBDA i : MatchesFilter(col[i], f)),
          LAMBDA i, j : StrictlyBefore(col[i], col[j]))

HasTies(col, o) ==
  \E k \in 1..(Len(o) - 1) : ~StrictlyBefore(col[o[k]], col[o[k + 1]])

\* the orders in which find may return the matching documents: the store
\* promises nothing about documents with equal sort keys.  When no two
\* matching documents have equal keys there is one order.
SortedOrders(col, f) ==
  IF ~HasTies(col, Sorted(col, f)) THEN {Sorted(col, f)}
  ELSE {o \in [1..Cardinality(Found(col, f)) -> Found(col, f)] :
          /\ \A i, j \in DOMAIN o : o[i] = o[j] => i = j
          /\ \A i, j \in DOMAIN o :
               i < j => SortsBefore(col[o[i]], col[o[j]])}

\* the cursor with the skip left out
SkipLimit_NoSkip(o, n, m) == SubSeq(o, 1, MathMin(Len(o), m))

\* cursor.skip(n).limit(m)
SkipLimit(o, n, m) ==
  IF n >= Len(o) THEN <<>> ELSE SubSeq(o, n + 1, MathMin(Len(o), n + m))

Docs(col, o) == [i \in DOMAIN o |-> col[o[i]]]

RECURSIVE SumOver(_, _)
SumOver(col, field) ==
  IF col = <<>> THEN 0 ELSE Head(col)[field] + SumOver(Tail(col), field)

\* the $group stage over the whole collection
Aggregate(col, startOfToday) ==
  [totalLinks |-> Len(col),
   avgSeverity |-> [sum |-> SumOver(col, "severity_score"), n |-> Len(col)],
   todayLinks |-> Cardinality({i \in 1..Len(col) :
                                 col[i].created_at >= startOfToday}),
   uniqueBots |-> {col[i].bot_id : i \in 1..Len(col)},
   uniqueSeenByBots |-> {col[i].seen_by_bots : i \in 1..Len(col)}]

\* the set built from uniqueBots alone
AllBots_PostersOnly(stats) == {b \in stats.uniqueBots : ~FalsyStr(b)}

\* allBots: the truthy bot ids of both fields
AllBots(stats) ==
  {b \in stats.uniqueBots : ~FalsyStr(b)}
    \cup {b \in UNION {{arr[i] : i \in 1..Len(arr)} :
                         arr \in stats.uniqueSeenByBots} : ~FalsyStr(b)}

\* stats.avgSeverity || 0, as the fraction sum/n
AvgOrZero(avg) == IF avg.sum = 0 THEN [sum |-> 0, n |-> 1] ELSE avg

ReadDone(rd, resp) == [rd EXCEPT !.pc = "done", !.resp = resp]

\* the stats handler after getClient(): today, startOfToday (the server
\* runs in UTC), then await col.aggregate(...)
StatsPrepare(rd) ==
  [rd EXCEPT !.pc = "aggregate", !.startOfToday = clock - (clock % DayMs)]

\* the links handler after getClient(): the query parameters, the filter,
\* then await col.countDocuments(filter)
LinksPrepare(rd) ==
  [rd EXCEPT !.pc = "count", !.pageNum = PageNum(rd.query),
             !.limitNum = LimitNum(rd.query), !.skip = Skip(rd.query)]

ReaderFree == reader.pc \in {"idle", "done"}

NewRead(op, query) ==
  [IdleReader EXCEPT !.op = op, !.query = query,
                     !.statsClient = reader.statsClient,
                     !.linksClient = reader.linksClient]

\* the stats handler from the method check to its first await that waits
StatsStart(method) ==
  /\ ReaderFree
  /\ reader' =
       IF method # "GET"
       THEN ReadDone(NewRead("stats", NoQuery),
                     [status |-> 405, error |-> "Method not allowed"])
       ELSE IF MONGODB_URI = ""
       THEN ReadDone(NewRead("stats", NoQuery), ServerError)
       ELSE IF ~reader.statsClient
       THEN [NewRead("stats", NoQuery) EXCEPT !.pc = "connect",
                                              !.statsClient = TRUE]
       ELSE StatsPrepare(NewRead("stats", NoQuery))
  /\ UNCHANGED <<links, uniqueIndex, conflictPolicy, VALID_TOKENS, client,
                 rateLimitMap, clock, req, obs, history, received,
                 served, registered_bots, registerClient, reg>>

\* the links handler up to its first await that waits
LinksStart(query) ==
  /\ ReaderFree
  /\ reader' =
       IF MONGODB_URI = ""
       THEN ReadDone(NewRead("links", query),
                     [status |-> 200, links |-> <<>>,
                      note |-> "MONGODB_URI nicht gesetzt"])
       ELSE IF ~reader.linksClient
       THEN [NewRead("links", query) EXCEPT !.pc = "connect",
                                            !.linksClient = TRUE]
       ELSE LinksPrepare(NewRead("links", query))
  /\ UNCHANGED <<links, uniqueIndex, conflictPolicy, VALID_TOKENS, client,
                 rateLimitMap, clock, req, obs, history, received,
                 served, registered_bots, registerClient, reg>>

\* await client.connect() of a read handler returns or throws
ReadConnect(ok) ==
  /\ reader.pc = "connect"
  /\ reader' = IF ~ok THEN ReadDone(reader, ServerError)
               ELSE IF reader.op = "stats" THEN StatsPrepare(reader)
               ELSE LinksPrepare(reader)
  /\ UNCHANGED <<links, uniqueIndex, conflictPolicy, VALID_TOKENS, client,
                 rateLimitMap, clock, req, obs, history, received,
                 served, registered_bots, registerClient, reg>>

\* await col.aggregate(...).toArray() returns or throws, then the response
StatsAggregate(ok) ==
  /\ reader.pc = "aggregate"
  /\ reader' =
       IF ~ok THEN ReadDone(reader, ServerError)
       ELSE IF links = <<>>
       THEN ReadDone(reader, [status |-> 200, totalLinks |-> 0,
                              activeBots |-> 0,
                              avgSeverity |-> [sum |-> 0, n |-> 1],
                              todayLinks |-> 0])
       ELSE LET stats == Aggregate(links, reader.startOfToday)
            IN ReadDone(reader,
                 [status |-> 200, totalLinks |-> stats.totalLinks,
                  activeBots |-> Cardinality(AllBots(stats)),
                  avgSeverity |-> AvgOrZero(stats.avgSeverity),
                  todayLinks |-> stats.todayLinks])
  /\ UNCHANGED <<links, uniqueIndex, conflictPolicy, VALID_TOKENS, client,
                 rateLimitMap, clock, req, obs, history, received,
                 served, registered_bots, registerClient, reg>>

\* await col.countDocuments(filter) returns or throws
CountDocuments(ok) ==
  /\ reader.pc = "count"
  /\ reader' =
       IF ~ok THEN ReadDone(reader, ServerError)
       ELSE [reader EXCEPT !.pc = "find",
               !.totalCount = Cardinality(Found(links, Filter(reader.query)))]
  /\ UNCHANGED <<links, uniqueIndex, conflictPolicy, VALID_TOKENS, client,
                 rateLimitMap, clock, req, obs, history, received,
                 served, registered_bots, registerClient, reg>>

\* Math.ceil(totalCount / limitNum)
TotalPages(totalCount, limitNum) == (totalCount + limitNum - 1) \div limitNum

\* the test with < in place of <=
IsLegacyRequest_Below(query, totalCount) ==
  /\ FalsyStr(query.page)
  /\ FalsyStr(query.limit)
  /\ totalCount < LegacyLimit

\* !req.query.page && !req.query.limit && totalCount <= 500
IsLegacyRequest(query, totalCount) ==
  /\ FalsyStr(query.page)
  /\ FalsyStr(query.limit)
  /\ totalCount <= LegacyLimit

\* await cursor.toArray() returns or throws, then the response in the
\* legacy or in the paginated shape
Find(ok) ==
  /\ reader.pc = "find"
  /\ IF ~ok THEN reader' = ReadDone(reader, ServerError)
     ELSE \E o \in SortedOrders(links, Filter(reader.query)) :
       LET q == reader.query
           f == Filter(q)
           totalPages == TotalPages(reader.totalCount, reader.limitNum)
       IN reader' =
            IF IsLegacyRequest(q, reader.totalCount)
            THEN ReadDone(reader,
                   [status |-> 200,
                    links |-> Docs(links, SkipLimit(o, 0, LegacyLimit))])
            ELSE ReadDone(reader,
                   [status |-> 200, success |-> TRUE,
                    links |-> Docs(links, SkipLimit(o, reader.skip,
                                                    reader.limitNum)),
                    pagination |->
                      [currentPage |-> reader.pageNum,
                       totalPages |-> totalPages,
                       totalItems |-> reader.totalCount,
                       itemsPerPage |-> reader.limitNum,
                       hasNext |-> reader.pageNum < totalPages,
                       hasPrev |-> reader.pageNum > 1],
                    filters |-> f])
  /\ UNCHANGED <<links, uniqueIndex, conflictPolicy, VALID_TOKENS, client,
                 rateLimitMap, clock, req, obs, history, received,
                 registered_bots, registerClient, reg>>

\* the last step of the links handler, not observed
ReadFind(ok) == Find(ok) /\ UNCHANGED served

\* the ingests that fill the collection the reads see
ReadIngests ==
  { Request("POST", "Bearer a.1", BodyA),
    Request("POST", "Bearer b.1", BodyAB),
    Request("POST", "Bearer a.x", BodyAB) }

PageValues == {Undefined, "", "abc", "0", "-2", "2", "3x", "150"}

Query(page, limit) == [NoQuery EXCEPT !.page = page, !.limit = limit]

\* the read requests: every value of page, every value of limit, both
\* together, and one request for each filter
Queries ==
  {Query(p, Undefined) : p \in PageValues}
    \cup {Query(Undefined, l) : l \in PageValues}
    \cup {Query("2", "1"), Query("0", "0"), Query("2", "150")}
    \cup {[NoQuery EXCEPT !.search = " X.test/A "],
          [NoQuery EXCEPT !.severity = "high"],
          [NoQuery EXCEPT !.severity = "low", !.page = "1"],
          [NoQuery EXCEPT !.dateFrom = "1970-01-01", !.dateTo = "1970-01-01"],
          [NoQuery EXCEPT !.dateFrom = "1970-01-02"]}

InitRead ==
  /\ links = <<>>
  /\ uniqueIndex = FALSE
  /\ conflictPolicy \in ConflictPolicies
  /\ VALID_TOKENS = "a.1,b.1"
  /\ client = FALSE
  /\ rateLimitMap = EmptyMap
  /\ clock = StartClock
  /\ req = [r \in Reqs |-> IdleReq]
  /\ obs = EmptyMap
  /\ history = NoHistory
  /\ received = [r \in Reqs |-> NoRequest]
  /\ reader = IdleReader
  /\ served = {}
  /\ registered_bots = <<>>
  /\ registerClient = FALSE
  /\ reg = [g \in Regs |-> IdleReg]

NextRead ==
  \/ \E r \in Reqs, in \in ReadIngests : GateStart(r, in)
  \/ \E r \in Reqs : Connect(r, TRUE)
  \/ \E r \in Reqs : EnsureIndexes(r, TRUE)
  \/ \E r \in Reqs : UpdateOne(r, TRUE)
  \/ \E r \in Reqs : UpsertInsert(r, TRUE)
  \/ \E method \in {"GET", "POST"} : StatsStart(method)
  \/ \E query \in Queries : LinksStart(query)
  \/ \E ok \in BOOLEAN : ReadConnect(ok)
  \/ \E ok \in BOOLEAN : StatsAggregate(ok)
  \/ \E ok \in BOOLEAN : CountDocuments(ok)
  \/ \E ok \in BOOLEAN : ReadFind(ok)

SpecRead == InitRead /\ [][NextRead]_vars

(***************************************************************************)
(* The links handler on a collection that does not change: the records     *)
(* left by single-url ingests at different milliseconds, or by one ingest  *)
(* of a tweet with two urls.                                               *)
(***************************************************************************)
Url(i) == "http://x.test/" \o ToString(i)

\* the body of the i-th ingest: scores run through 0..9
BodyOf(i) ==
  [EmptyBody EXCEPT !.tweet_text = Url(i), !.tweet_id = ToString(i),
                    !.severity_score = i % 10, !.created_at = i]

\* the record the i-th ingest, by identity a at millisecond i, inserts
StoredDoc(i) == NewDoc(Url(i), Metadata(BodyOf(i), "a", i), "a", i)

Stored(n) == [i \in 1..n |-> StoredDoc(i)]

\* the two records one ingest of the tweet with two urls inserts: equal
\* updated_at, equal created_at
StoredPair ==
  [i \in 1..2 |->
     NewDoc(ExtractUrls(TextAB)[i], Metadata(BodyAB, "b", StartClock), "b",
            StartClock)]

Sizes == {0, 3, 120, LegacyLimit, LegacyLimit + 1}

Collections == {Stored(n) : n \in Sizes} \cup {StoredPair}

PageQueries ==
  {Query(p, "50") : p \in {"1", "2", "3", "4"}}
    \cup {Query("1", "2"), Query("2", "2"), Query("3", "1")}
    \cup {NoQuery, Query("1", Undefined), Query(Undefined, "100"),
          Query("", "")}
    \cup {[NoQuery EXCEPT !.severity = v] :
            v \in {"high", "medium", "low", "", "urgent"}}
    \cup {[NoQuery EXCEPT !.severity = "medium", !.page = "2",
                          !.limit = "50"],
          [NoQuery EXCEPT !.search = "test/12"]}

InitPages ==
  /\ links \in Collections
  /\ uniqueIndex = TRUE
  /\ conflictPolicy = "apply"
  /\ VALID_TOKENS = "a.1,b.1"
  /\ client = FALSE
  /\ rateLimitMap = EmptyMap
  /\ clock = StartClock
  /\ req = [r \in Reqs |-> IdleReq]
  /\ obs = EmptyMap
  /\ history = NoHistory
  /\ received = [r \in Reqs |-> NoRequest]
  /\ reader = IdleReader
  /\ served = {}
  /\ registered_bots = <<>>
  /\ registerClient = FALSE
  /\ reg = [g \in Regs |-> IdleReg]

NextPages ==
  \/ \E query \in PageQueries : LinksStart(query)
  \/ \E ok \in BOOLEAN : ReadConnect(ok)
  \/ \E ok \in BOOLEAN : CountDocuments(ok)
  \/ \E ok \in BOOLEAN : ReadFind(ok)

SpecPages == InitPages /\ [][NextPages]_vars

(***************************************************************************)
(* Walks through the pages of a small collection that does not change,     *)
(* the responses observed.                                                 *)
(***************************************************************************)
WalkCollections == {Stored(0), Stored(3), StoredPair}

WalkQueries ==
  {Query(p, l) : p \in {"1", "2", "3", "4"}, l \in {"1", "2"}}
    \cup {[NoQuery EXCEPT !.severity = "low", !.page = p, !.limit = "1"] :
            p \in {"1", "2", "3"}}

\* what the observer keeps of the paginated responses: those for the
\* filter and limit of the latest one
Serve(old, rd) ==
  IF rd.resp.status = 200 /\ "pagination" \in DOMAIN rd.resp
  THEN LET key == [filter |-> Filter(rd.query), limit |-> rd.limitNum]
       IN {e \in old : e.key = key}
            \cup {[key |-> key, page |-> rd.pageNum,
                   urls |-> [i \in DOMAIN rd.resp.links |->
                               rd.resp.links[i].url],
                   pagination |-> rd.resp.pagination]}
  ELSE old

\* the last step of the links handler, observed
PageFind(ok) == Find(ok) /\ served' = Serve(served, reader')

InitWalk ==
  /\ links \in WalkCollections
  /\ uniqueIndex = TRUE
  /\ conflictPolicy = "apply"
  /\ VALID_TOKENS = "a.1,b.1"
  /\ client = FALSE
  /\ rateLimitMap = EmptyMap
  /\ clock = StartClock
  /\ req = [r \in Reqs |-> IdleReq]
  /\ obs = EmptyMap
  /\ history = NoHistory
  /\ received = [r \in Reqs |-> NoRequest]
  /\ reader = IdleReader
  /\ served = {}
  /\ registered_bots = <<>>
  /\ registerClient = FALSE
  /\ reg = [g \in Regs |-> IdleReg]

NextWalk ==
  \/ \E query \in WalkQueries : LinksStart(query)
  \/ \E ok \in BOOLEAN : ReadConnect(ok)
  \/ \E ok \in BOOLEAN : CountDocuments(ok)
  \/ \E ok \in BOOLEAN : PageFind(ok)

SpecWalk == InitWalk /\ [][NextWalk]_vars

(***************************************************************************)
(* The original links handler (the version of the endpoint before          *)
(* pagination), next to the present one, on collections that do not        *)
(* change.  Both are versions of one module and use its client.            *)
(***************************************************************************)
OriginalLimit == 500

OriginalError == [status |-> 500, error |-> "Serverfehler"]

\* sort({updated_at: -1})
OriginalBefore(a, b) == a.updated_at > b.updated_at

OriginalSorted(col) ==
  SortSeq([i \in 1..Len(col) |-> i],
          LAMBDA i, j : OriginalBefore(col[i], col[j]))

OriginalTies(col, o) ==
  \E k \in 1..(Len(o) - 1) : ~OriginalBefore(col[o[k]], col[o[k + 1]])

\* the orders in which find({}).sort({updated_at: -1}) may return the
\* documents: those with equal updated_at in any order
OriginalOrders(col) ==
  IF ~OriginalTies(col, OriginalSorted(col)) THEN {OriginalSorted(col)}
  ELSE {o \in [1..Len(col) -> 1..Len(col)] :
          /\ \A i, j \in DOMAIN o : o[i] = o[j] => i = j
          /\ \A i, j \in DOMAIN o :
               i < j => col[o[i]].updated_at >= col[o[j]].updated_at}

\* the original handler up to its first await that waits
OriginalStart ==
  /\ ReaderFree
  /\ reader' =
       IF MONGODB_URI = ""
       THEN ReadDone(NewRead("original", NoQuery),
                     [status |-> 200, links |-> <<>>,
                      note |-> "MONGODB_URI nicht gesetzt"])
       ELSE IF ~reader.linksClient
       THEN [NewRead("original", NoQuery) EXCEPT !.pc = "originalConnect",
                                                 !.linksClient = TRUE]
       ELSE [NewRead("original", NoQuery) EXCEPT !.pc = "originalFind"]
  /\ UNCHANGED <<links, uniqueIndex, conflictPolicy, VALID_TOKENS, client,
                 rateLimitMap, clock, req, obs, history, received,
                 served, registered_bots, registerClient, reg>>

\* await client.connect() of the original handler returns or throws
OriginalConnect(ok) ==
  /\ reader.pc = "originalConnect"
  /\ reader' = IF ok THEN [reader EXCEPT !.pc = "originalFind"]
               ELSE ReadDone(reader, OriginalError)
  /\ UNCHANGED <<links, uniqueIndex, conflictPolicy, VALID_TOKENS, client,
                 rateLimitMap, clock, req, obs, history, received,
                 served, registered_bots, registerClient, reg>>

\* await cursor.toArray() of the original handler returns or throws
OriginalFind(ok) ==
  /\ reader.pc = "originalFind"
  /\ IF ~ok THEN reader' = ReadDone(reader, OriginalError)
     ELSE \E o \in OriginalOrders(links) :
            reader' = ReadDone(reader,
                        [status |-> 200,
                         links |-> Docs(links,
                                        SkipLimit(o, 0, OriginalLimit))])
  /\ UNCHANGED <<links, uniqueIndex, conflictPolicy, VALID_TOKENS, client,
                 rateLimitMap, clock, req, obs, history, received,
                 served, registered_bots, registerClient, reg>>

\* two records written in the same millisecond, created_at 1 and 2
StoredSameTime ==
  [i \in 1..2 |-> NewDoc(Url(i), Metadata(BodyOf(i), "a", 5), "a", 5)]

\* three records, the one with the oldest created_at updated last
StoredBacklog ==
  [i \in 1..3 |-> NewDoc(Url(i), Metadata(BodyOf(i), "a", 10 - i), "a",
                         10 - i)]

OriginalCollections ==
  {Stored(0), Stored(3), StoredPair, StoredSameTime, StoredBacklog,
   Stored(OriginalLimit), Stored(OriginalLimit + 1)}

OriginalQueries ==
  {NoQuery, Query("", ""), Query("1", Undefined), Query(Undefined, "2"),
   [NoQuery EXCEPT !.severity = "low"]}

InitOriginal ==
  /\ links \in OriginalCollections
  /\ uniqueIndex = TRUE
  /\ conflictPolicy = "apply"
  /\ VALID_TOKENS = "a.1,b.1"
  /\ client = FALSE
  /\ rateLimitMap = EmptyMap
  /\ clock = StartClock
  /\ req = [r \in Reqs |-> IdleReq]
  /\ obs = EmptyMap
  /\ history = NoHistory
  /\ received = [r \in Reqs |-> NoRequest]
  /\ reader = IdleReader
  /\ served = {}
  /\ registered_bots = <<>>
  /\ registerClient = FALSE
  /\ reg = [g \in Regs |-> IdleReg]

NextOriginal ==
  \/ OriginalStart
  \/ \E ok \in BOOLEAN : OriginalConnect(ok)
  \/ \E ok \in BOOLEAN : OriginalFind(ok)
  \/ \E query \in OriginalQueries : LinksStart(query)
  \/ \E ok \in BOOLEAN : ReadConnect(ok)
  \/ \E ok \in BOOLEAN : CountDocuments(ok)
  \/ \E ok \in BOOLEAN : ReadFind(ok)

SpecOriginal == InitOriginal /\ [][NextOriginal]_vars

(***************************************************************************)
(* The register handler, with its own module-level client, writing the     *)
(* registered_bots collection.  Register requests run at the same time;    *)
(* an ingest may present a token a registration returned.                  *)
(***************************************************************************)
ADMIN_SECRET == "admin"

\* hexadecimal strings as crypto.randomBytes(16).toString('hex') gives
\* them, cut to two characters
Suffixes == {"0a", "f1"}

AlphaNum == "abcdefghijklmnopqrstuvwxyz0123456789"

RECURSIVE KeepAlphaNum(_)
KeepAlphaNum(s) ==
  IF s = "" THEN ""
  ELSE (IF \E k \in 1..Len(AlphaNum) : CharAt(AlphaNum, k) = CharAt(s, 1)
        THEN CharAt(s, 1) ELSE "") \o KeepAlphaNum(Slice(s, 1))

RECURSIVE ToLowerCase(_)
ToLowerCase(s) ==
  IF s = "" THEN "" ELSE FoldCase(CharAt(s, 1)) \o ToLowerCase(Slice(s, 1))

\* botName.toLowerCase().replace(/[^a-z0-9]/g, '')
BotIdOf(botName) == KeepAlphaNum(ToLowerCase(botName))

RegBody(botName, owner) ==
  [botName |-> botName, owner |-> owner, description |-> Undefined]

RegRequest(method, auth, body) ==
  [method |-> method, auth |-> auth, body |-> body]

\* the register requests sent: "Bot A" and "bot-a" derive the same id
RegRequests ==
  { RegRequest("GET", "Bearer admin", RegBody("Bot A", "o")),
    RegRequest("POST", "Bearer wrong", RegBody("Bot A", "o")),
    RegRequest("POST", "Bearer admin", RegBody("Bot A", Undefined)),
    RegRequest("POST", "Bearer admin", RegBody("Bot A", "o")),
    RegRequest("POST", "Bearer admin", RegBody("bot-a", "p")),
    RegRequest("POST", "Bearer admin", RegBody("Bee", "o")) }

RegDone(g, resp) ==
  reg' = [reg EXCEPT ![g].pc = "done", ![g].resp = resp]

\* the record insertOne is given
BotRecord(q, now) ==
  [botId |-> q.botId, botName |-> q.botName,
   description |-> IF FalsyStr(q.description) THEN "" ELSE q.description,
   owner |-> q.owner, token |-> q.token, createdAt |-> now,
   lastSeen |-> NullDate, isActive |-> TRUE, totalSubmissions |-> 0,
   lastSubmission |-> NullDate]

\* the register handler from the method check to its first await that
\* waits: client.connect() when this request creates the client, else
\* findOne
RegisterStart(g, in, suffix) ==
  /\ reg[g].pc = "idle"
  /\ IF g = 1 THEN TRUE ELSE reg[g - 1].pc # "idle"
  /\ LET q == [IdleReg EXCEPT !.method = in.method, !.auth = in.auth,
                              !.botName = in.body.botName,
                              !.owner = in.body.owner,
                              !.description = in.body.description]
         botId == BotIdOf(in.body.botName)
         started == [q EXCEPT !.botId = botId,
                              !.token = botId \o "." \o suffix]
     IN IF in.method # "POST"
        THEN /\ reg' = [reg EXCEPT ![g] =
                          [q EXCEPT !.pc = "done",
                             !.resp = [status |-> 405,
                                       error |-> "Method not allowed"]]]
             /\ UNCHANGED registerClient
        ELSE IF \/ ADMIN_SECRET = ""
                \/ ~StartsWith(in.auth, "Bearer ")
                \/ Slice(in.auth, BearerLen) # ADMIN_SECRET
        THEN /\ reg' = [reg EXCEPT ![g] =
                          [q EXCEPT !.pc = "done",
                             !.resp = [status |-> 401,
                                       error |-> "Admin access required"]]]
             /\ UNCHANGED registerClient
        ELSE IF FalsyStr(in.body.botName) \/ FalsyStr(in.body.owner)
        THEN /\ reg' = [reg EXCEPT ![g] =
                          [q EXCEPT !.pc = "done",
                             !.resp = [status |-> 400,
                               error |->
                                 "Missing required fields: botName, owner"]]]
             /\ UNCHANGED registerClient
        ELSE IF MONGODB_URI = ""
        THEN /\ reg' = [reg EXCEPT ![g] =
                          [started EXCEPT !.pc = "done",
                                          !.resp = ServerError]]
             /\ UNCHANGED registerClient
        ELSE /\ reg' = [reg EXCEPT ![g] =
                          [started EXCEPT
                             !.pc = IF registerClient THEN "findOne"
                                    ELSE "connect"]]
             /\ registerClient' = TRUE
  /\ UNCHANGED <<links, uniqueIndex, conflictPolicy, VALID_TOKENS, client,
                 rateLimitMap, clock, req, obs, history, received, reader,
                 served, registered_bots>>

\* await client.connect() of the register handler returns or throws
RegisterConnect(g, ok) ==
  /\ reg[g].pc = "connect"
  /\ IF ok THEN reg' = [reg EXCEPT ![g].pc = "findOne"]
     ELSE RegDone(g, ServerError)
  /\ UNCHANGED <<links, uniqueIndex, conflictPolicy, VALID_TOKENS, client,
                 rateLimitMap, clock, req, obs, history, received, reader,
                 served, registered_bots, registerClient>>

\* await botsCol.findOne({botId}) returns or throws; 409 when a record
\* was found, else the record is built and insertOne is called
RegisterFindOne(g, ok) ==
  /\ reg[g].pc = "findOne"
  /\ IF ~ok THEN RegDone(g, ServerError)
     ELSE IF \E i \in 1..Len(registered_bots) :
               registered_bots[i].botId = reg[g].botId
     THEN RegDone(g, [status |-> 409,
                      error |-> "Bot with this name already exists"])
     ELSE reg' = [reg EXCEPT ![g].pc = "insertOne"]
  /\ UNCHANGED <<links, uniqueIndex, conflictPolicy, VALID_TOKENS, client,
                 rateLimitMap, clock, req, obs, history, received, reader,
                 served, registered_bots, registerClient>>

\* the last step with the token also written to process.env.VALID_TOKENS
RegisterInsertOne_UpdatesEnv(g, ok) ==
  /\ reg[g].pc = "insertOne"
  /\ IF ~ok
     THEN RegDone(g, ServerError) /\ UNCHANGED <<registered_bots, VALID_TOKENS>>
     ELSE /\ registered_bots' =
               Append(registered_bots, BotRecord(reg[g], clock))
          /\ VALID_TOKENS' = VALID_TOKENS \o "," \o reg[g].token
          /\ RegDone(g, [status |-> 201, success |-> TRUE,
                         botId |-> reg[g].botId, token |-> reg[g].token,
                         message |-> "Bot registered successfully. Add this token to VALID_TOKENS environment variable."])
  /\ UNCHANGED <<links, uniqueIndex, conflictPolicy, client,
                 rateLimitMap, clock, req, obs, history, received, reader,
                 served, registerClient>>

\* await botsCol.insertOne(botRecord) returns or throws; the token is
\* pushed to a local copy of the allow-list, which is dropped, and the
\* response is sent
RegisterInsertOne(g, ok) ==
  /\ reg[g].pc = "insertOne"
  /\ IF ~ok
     THEN RegDone(g, ServerError) /\ UNCHANGED registered_bots
     ELSE /\ registered_bots' =
               Append(registered_bots, BotRecord(reg[g], clock))
          /\ RegDone(g, [status |-> 201, success |-> TRUE,
                         botId |-> reg[g].botId, token |-> reg[g].token,
                         message |-> "Bot registered successfully. Add this token to VALID_TOKENS environment variable."])
  /\ UNCHANGED <<links, uniqueIndex, conflictPolicy, VALID_TOKENS, client,
                 rateLimitMap, clock, req, obs, history, received, reader,
                 served, registerClient>>

\* an ingest that presents the token a registration returned
IngestWithToken(r, g) ==
  /\ reg[g].pc = "done"
  /\ reg[g].resp.status = 201
  /\ GateStart(r, Request("POST", "Bearer " \o reg[g].resp.token, BodyA))

InitRegister ==
  /\ links = <<>>
  /\ uniqueIndex = FALSE
  /\ conflictPolicy \in ConflictPolicies
  /\ VALID_TOKENS = "a.1,b.1"
  /\ client = FALSE
  /\ rateLimitMap = EmptyMap
  /\ clock = StartClock
  /\ req = [r \in Reqs |-> IdleReq]
  /\ obs = EmptyMap
  /\ history = NoHistory
  /\ received = [r \in Reqs |-> NoRequest]
  /\ reader = IdleReader
  /\ served = {}
  /\ registered_bots = <<>>
  /\ registerClient = FALSE
  /\ reg = [g \in Regs |-> IdleReg]

NextRegister ==
  \/ \E g \in Regs, in \in RegRequests, suffix \in Suffixes :
       RegisterStart(g, in, suffix)
  \/ \E g \in Regs, ok \in BOOLEAN : RegisterConnect(g, ok)
  \/ \E g \in Regs, ok \in BOOLEAN : RegisterFindOne(g, ok)
  \/ \E g \in Regs, ok \in BOOLEAN : RegisterInsertOne(g, ok)
  \/ \E r \in Reqs, g \in Regs : IngestWithToken(r, g)

SpecRegister == InitRegister /\ [][NextRegister]_vars

(***************************************************************************)
(* Properties of the ingest handler.                                       *)
(***************************************************************************)
Calls(u) == obs[u].ins + obs[u].upd + obs[u].noop

Records(u) == {links[i] : i \in Matching(links, u)}

Occurrences(arr, x) == Cardinality({i \in 1..Len(arr) : arr[i] = x})

Elems(arr) == {arr[i] : i \in 1..Len(arr)}

C2_OneInsertOneUpdate ==
  \A u \in DOMAIN obs :
    (Calls(u) = 2 /\ Cardinality(obs[u].bots) = 2 /\ ~obs[u].alone)
      => (obs[u].ins = 1 /\ obs[u].upd = 1)

\* C3: when one identity submits the same payload twice, one ingest after
\* the other, the first call counts as inserted, the second as neither
\* inserted nor updated, and the record lists the identity once.
C3_RepeatIsNoOp ==
  \A u \in DOMAIN obs :
    (Calls(u) = 2 /\ obs[u].alone
       /\ obs[u].first.bot = obs[u].last.bot
       /\ obs[u].first.body = obs[u].last.body)
      => /\ obs[u].ins = 1 /\ obs[u].upd = 0 /\ obs[u].noop = 1
         /\ \A d \in Records(u) :
              Occurrences(d.seen_by_bots, obs[u].first.bot) = 1

\* C4: every record's created_at and first_seen_bot are the server time and
\* the identity of the ingest that first inserted its url, whatever was
\* ingested since.
C4_WriteOnce ==
  \A i \in 1..Len(links) :
    /\ links[i].created_at = obs[links[i].url].first.now
    /\ links[i].first_seen_bot = obs[links[i].url].first.bot

\* C5: seen_by_bots of a record only grows, and when an updateOne by an
\* identity has returned, a record of that url lists the identity.
C5_SeenByBotsGrows ==
  [][ /\ \A i \in 1..Len(links) :
           /\ i <= Len(links')
           /\ links'[i].url = links[i].url
           /\ Elems(links[i].seen_by_bots) \subseteq Elems(links'[i].seen_by_bots)
      /\ \A u \in DOMAIN obs' : \A b \in obs'[u].bots :
           \E i \in 1..Len(links') :
             links'[i].url = u /\ b \in Elems(links'[i].seen_by_bots) ]_vars

C5_Witness ==
  \E i \in 1..Len(links) :
    Len(links[i].seen_by_bots) = 2 /\ obs[links[i].url].bots = {"a", "b"}

\* C6: the record an updateOne wrote last carries the bot_id, updated_at,
\* severity_score, categories, matched_keywords and tweet_text of the ingest
\* that made the call, updated_at being that ingest's server time.
C6_LastWriteWins ==
  \A u \in DOMAIN obs :
    \E d \in Records(u) :
      /\ d.bot_id = obs[u].last.bot
      /\ d.updated_at = obs[u].last.now
      /\ d.severity_score = obs[u].last.body.severity_score
      /\ d.categories = obs[u].last.body.categories
      /\ d.matched_keywords = obs[u].last.body.matched_keywords
      /\ d.tweet_text = obs[u].last.body.tweet_text

C6_Witness ==
  \E u \in DOMAIN obs :
    /\ obs[u].upd >= 1
    /\ obs[u].last.body # obs[u].first.body
    /\ obs[u].last.bot # obs[u].first.bot
    /\ \E d \in Records(u) : d.tweet_text = obs[u].last.body.tweet_text

(***************************************************************************)
(* Properties of the limiter.                                              *)
(***************************************************************************)
Bursts(bot) == MapGet(history.bursts, bot)

\* the allow answers among the first n answers
Allows(answers, n) == Cardinality({i \in 1..n : answers[i]})

AllowsOf(bot) ==
  [k \in 1..Len(Bursts(bot)) |->
     Allows(Bursts(bot)[k].answers, Len(Bursts(bot)[k].answers))]

CallsOf(bot) ==
  [k \in 1..Len(Bursts(bot)) |-> Len(Bursts(bot)[k].answers)]

RECURSIVE Sum(_, _)
Sum(f, S) ==
  IF S = {} THEN 0
  ELSE LET j == CHOOSE x \in S : TRUE IN f[j] + Sum(f, S \ {j})

\* the bursts of the identity before its burst k, at a millisecond of the
\* hour that ends at burst k
EarlierInHour(bot, k) ==
  {j \in 1..(k - 1) : Bursts(bot)[j].t > Bursts(bot)[k].t - 3600000}

\* C7: with quota 100 and a window of one hour, a check that fewer than 100
\* checks of the identity precede within the hour returns allow, a check
\* that 100 admissions precede within the hour returns deny, and a check
\* that no admission precedes within the hour returns allow.
C7_RateWindow ==
  \A bot \in Identities : \A k \in 1..Len(Bursts(bot)) :
    LET callsBefore == Sum(CallsOf(bot), EarlierInHour(bot, k))
        allowsBefore == Sum(AllowsOf(bot), EarlierInHour(bot, k))
        answers == Bursts(bot)[k].answers
    IN \A i \in 1..Len(answers) :
         /\ callsBefore + (i - 1) < 100 => answers[i]
         /\ allowsBefore + Allows(answers, i - 1) >= 100 => ~answers[i]
         /\ allowsBefore + Allows(answers, i - 1) = 0 => answers[i]

\* 100 checks admitted, the next within the hour denied, and one admitted
\* when the hour has passed since the 100
C7_Witness ==
  \E bot \in Identities : \E k1, k2, k3 \in 1..Len(Bursts(bot)) :
    /\ k1 < k2 /\ k2 < k3
    /\ AllowsOf(bot)[k1] = 100
    /\ Bursts(bot)[k2].t < Bursts(bot)[k1].t + 3600000
    /\ ~Bursts(bot)[k2].answers[1]
    /\ Bursts(bot)[k3].t >= Bursts(bot)[k1].t + 3600000
    /\ Bursts(bot)[k3].answers[1]

\* the admissions of an identity at a millisecond of (t - window, t]
AdmittedIn(bot, t) ==
  Sum(AllowsOf(bot), {j \in 1..Len(Bursts(bot)) :
                        /\ Bursts(bot)[j].t > t - windowMsDefault
                        /\ Bursts(bot)[j].t <= t})

\* C8: for every identity and every instant t, at most quota checks were
\* admitted at a millisecond of (t - window, t].  (Of all t the count is
\* largest at the instant of an admission.)
C8_SlidingWindow ==
  \A bot \in Identities : \A k \in 1..Len(Bursts(bot)) :
    AdmittedIn(bot, Bursts(bot)[k].t) <= maxRequestsDefault

\* a quota's worth admitted just before a multiple of the window, and the
\* identity's burst just after it denied
C8_Witness ==
  \E bot \in Identities : \E k1, k2 \in 1..Len(Bursts(bot)) :
    /\ Bursts(bot)[k1].t < windowMsDefault
    /\ Bursts(bot)[k2].t >= windowMsDefault
    /\ Bursts(bot)[k2].t - Bursts(bot)[k1].t < windowMsDefault
    /\ AllowsOf(bot)[k1] = maxRequestsDefault
    /\ CallsOf(bot)[k2] = maxRequestsDefault
    /\ AllowsOf(bot)[k2] = 0

\* the admissions of an identity at the millisecond t
AdmittedAt(bot, t) ==
  Sum(AllowsOf(bot), {j \in 1..Len(Bursts(bot)) : Bursts(bot)[j].t = t})

\* C9: the timestamps a check from now on counts against an identity are
\* those of its admitted checks within the window, each as often as a
\* check was admitted then: a denied check has left none.
C9_DenyRecordsNothing ==
  \A bot \in Identities :
    LET stored == MapGet(rateLimitMap, bot)
    IN \A t \in Elems(stored) \cup Elems([k \in 1..Len(Bursts(bot)) |->
                                           Bursts(bot)[k].t]) :
         t > clock - windowMsDefault
           => Occurrences(stored, t) = AdmittedAt(bot, t)

\* an identity out of quota was denied within the window, and admitted at
\* the very millisecond the window of its admissions had passed
C9_Witness ==
  \E bot \in Identities : \E k1, k2, k3 \in 1..Len(Bursts(bot)) :
    /\ k1 < k2 /\ k2 < k3
    /\ AllowsOf(bot)[k1] = maxRequestsDefault
    /\ Bursts(bot)[k2].t > Bursts(bot)[k1].t
    /\ AllowsOf(bot)[k2] = 0
    /\ Bursts(bot)[k3].t = Bursts(bot)[k1].t + windowMsDefault
    /\ Bursts(bot)[k3].answers[1]

\* the answers and the map when the first k bursts of an identity are made
\* as they were, on a map no other identity has called with
RECURSIVE Alone(_, _)
Alone(bot, k) ==
  IF k = 0 THEN [answers |-> <<>>, map |-> EmptyMap]
  ELSE LET before == Alone(bot, k - 1)
           b == Burst(before.map, bot, Bursts(bot)[k].t,
                      Len(Bursts(bot)[k].answers))
       IN [answers |-> Append(before.answers, b.answers), map |-> b.map]

\* C11: the timestamps stored for an identity and the answers it got are
\* those of its own calls made alone: the checks of other identities
\* change neither.
C11_PerIdentity ==
  \A bot \in Identities :
    LET alone == Alone(bot, Len(Bursts(bot)))
    IN /\ MapGet(rateLimitMap, bot) = MapGet(alone.map, bot)
       /\ \A k \in 1..Len(Bursts(bot)) :
            Bursts(bot)[k].answers = alone.answers[k]

\* one identity is out of quota and was denied; the other was admitted
\* after that, within the same window
C11_Witness ==
  \E A, B \in Identities : \E ka \in 1..Len(Bursts(A)), kb \in 1..Len(Bursts(B)) :
    /\ A # B
    /\ ~Bursts(A)[ka].answers[Len(Bursts(A)[ka].answers)]
    /\ Bursts(B)[kb].t > Bursts(A)[ka].t
    /\ Bursts(B)[kb].t - Bursts(A)[ka].t < windowMsDefault
    /\ Bursts(B)[kb].answers[1]

\* C10: the limiter checks and records in one step: of the requests of one
\* identity, handled at the same time or not, no more are admitted than
\* the quota had left.
Admitted(bot) ==
  Cardinality({r \in Reqs : /\ req[r].pc # "idle"
                            /\ req[r].botId = bot
                            /\ req[r].resp.status # 429})

C10_CheckAndRecordAtomic ==
  \A r \in Reqs :
    Admitted(req[r].botId)
      <= maxRequestsDefault - InitialAdmissions(req[r].botId)

\* one slot was left, a request took it and waits for the store, and a
\* second request of the identity was turned away meanwhile
C10_Witness ==
  \E r1, r2 \in Reqs :
    /\ r1 \in InFlight /\ req[r1].botId = "b"
    /\ req[r2].botId = "b" /\ req[r2].resp.status = 429

(***************************************************************************)
(* Properties of the ingest handler's gate: identity, admission,           *)
(* allow-list and validation, read off the request a run was called with   *)
(* and the response it gave.                                               *)
(***************************************************************************)
Handled(r) == req[r].pc # "idle"

Status(r) == req[r].resp.status

Error(r) == IF "error" \in DOMAIN req[r].resp THEN req[r].resp.error ELSE ""

HasBearer(r) ==
  /\ received[r].method = "POST"
  /\ Len(received[r].auth) >= 7
  /\ SubSeq(received[r].auth, 1, 7) = "Bearer "

\* what follows "Bearer " in the authorization header
Credential(r) == SubSeq(received[r].auth, 8, Len(received[r].auth))

Dots(cred) == {i \in 1..Len(cred) : SubSeq(cred, i, i) = "."}

\* the credential up to its first '.', all of it when it has none
Prefix(cred) ==
  IF Dots(cred) = {} THEN cred
  ELSE SubSeq(cred, 1, (CHOOSE i \in Dots(cred) : \A j \in Dots(cred) : i <= j) - 1)

\* C12 as claimed: the identity of a request with a bearer credential is
\* the credential up to its first '.', the whole credential when it has
\* none.
C12_IdentityIsPrefix ==
  \A r \in Reqs :
    (Handled(r) /\ HasBearer(r)) => req[r].botId = Prefix(Credential(r))

Identity(r) ==
  IF Prefix(Credential(r)) # "" THEN Prefix(Credential(r))
  ELSE IF received[r].ip # Undefined THEN received[r].ip
  ELSE "anonymous"

\* C12 amended: the identity is the credential up to its first '.', the
\* whole credential when it has none, and when that is empty the address
\* the request came from or, without one, "anonymous"; the limiter keeps
\* its timestamps under it and the response names it.
C12_IdentityIsPrefixOrFallback ==
  \A r \in Reqs :
    (Handled(r) /\ HasBearer(r)) =>
      /\ req[r].botId = Identity(r)
      /\ Identity(r) \in DOMAIN rateLimitMap
      /\ "bot_id" \in DOMAIN req[r].resp => req[r].resp.bot_id = Identity(r)

\* a credential that starts with '.' was handled under the request's
\* address, an empty one from no address as "anonymous", and one with two
\* dots under what precedes the first
C12_Witness ==
  \E r1, r2 \in Reqs :
    /\ Handled(r1) /\ Credential(r1) = ".x" /\ req[r1].botId = "9.9.9.9"
    /\ Handled(r2) /\ HasBearer(r2) /\ Credential(r2) = ""
    /\ req[r2].botId = "anonymous"

\* the credentials the configuration admits
AllowList == {t \in Elems(Split(VALID_TOKENS, ",")) : Trim(t) # ""}

\* requests are started in the order of their numbers: the admissions
\* recorded under r's identity when r reached the limiter
AdmittedBefore(r) ==
  GateAdmissions(req[r].botId)
    + Cardinality({o \in Reqs : /\ o < r
                                /\ HasBearer(o)
                                /\ req[o].botId = req[r].botId
                                /\ Status(o) # 429})

\* C13: the limiter answers before the allow-list is looked at: a request
\* with a bearer credential is rate limited exactly when its identity's
\* quota was used up, whether or not its credential is in the allow-list,
\* and every such request that was not rate limited, the ones rejected by
\* the allow-list included, is recorded against its identity.
C13_AdmissionBeforeAllowList ==
  /\ \A r \in Reqs :
       (Handled(r) /\ HasBearer(r)) =>
         (Status(r) = 429 <=> AdmittedBefore(r) >= maxRequestsDefault)
  /\ \A P \in DOMAIN rateLimitMap :
       Len(rateLimitMap[P]) =
         GateAdmissions(P)
           + Cardinality({r \in Reqs : /\ Handled(r)
                                       /\ HasBearer(r)
                                       /\ req[r].botId = P
                                       /\ Status(r) # 429})

\* a credential outside the allow-list took the last admission of its
\* identity, and the valid bot of that identity was rate limited after it
C13_Witness ==
  \E r1, r2 \in Reqs :
    /\ r1 < r2
    /\ Handled(r1) /\ HasBearer(r1) /\ Credential(r1) \notin AllowList
    /\ Status(r1) = 401 /\ req[r1].botId = "a"
    /\ Handled(r2) /\ HasBearer(r2) /\ Credential(r2) \in AllowList
    /\ req[r2].botId = "a" /\ Status(r2) = 429

\* C14 as claimed: a POST without a bearer credential is answered 401
\* "Bearer token required" and one whose credential is not in the
\* allow-list 401 "Invalid token", whatever the limiter's state.
C14_RejectedWhateverTheLimiter ==
  \A r \in Reqs :
    (Handled(r) /\ received[r].method = "POST") =>
      /\ ~HasBearer(r) =>
           (Status(r) = 401 /\ Error(r) = "Bearer token required")
      /\ (HasBearer(r) /\ Credential(r) \notin AllowList) =>
           (Status(r) = 401 /\ Error(r) = "Invalid token")

\* C14 amended: a POST without a bearer credential is answered 401
\* "Bearer token required"; one whose credential is not in the allow-list
\* is answered 401 "Invalid token" while its identity has quota left and
\* 429 once it has none; with an empty allow-list no credential passes.
C14_RejectedUnlessRateLimited ==
  \A r \in Reqs :
    (Handled(r) /\ received[r].method = "POST") =>
      /\ ~HasBearer(r) =>
           (Status(r) = 401 /\ Error(r) = "Bearer token required")
      /\ (HasBearer(r) /\ Credential(r) \notin AllowList) =>
           IF AdmittedBefore(r) < maxRequestsDefault
           THEN Status(r) = 401 /\ Error(r) = "Invalid token"
           ELSE Status(r) = 429
      /\ (HasBearer(r) /\ VALID_TOKENS = "") => Status(r) \in {401, 429}

\* with an empty allow-list the credential a.1 was rejected, and the next
\* credential of identity a was rate limited
C14_Witness ==
  \E r1, r2 \in Reqs :
    /\ VALID_TOKENS = ""
    /\ Handled(r1) /\ HasBearer(r1) /\ Credential(r1) = "a.1"
    /\ Status(r1) = 401 /\ Error(r1) = "Invalid token"
    /\ Handled(r2) /\ HasBearer(r2) /\ req[r2].botId = "a"
    /\ Status(r2) = 429

\* r is answered in this step, with one of the given statuses, without
\* having waited for anything
EndsAtGate(r, statuses) ==
  /\ req[r].pc = "idle"
  /\ req'[r].pc = "done"
  /\ req'[r].resp.status \in statuses

\* C15: a request answered 405, 401, 429 or 400 is answered before the
\* handler asks for the storage client, so no client is created, no index is
\* built and the link collection is the same after it as before.
C15_NoStorageAccess ==
  [][\A r \in Reqs :
       EndsAtGate(r, {405, 401, 429, 400}) =>
         /\ links' = links
         /\ uniqueIndex' = uniqueIndex
         /\ client' = client]_vars

\* a request was answered 400 and the storage client was never created
C15_Witness ==
  \E r \in Reqs :
    /\ Handled(r) /\ Status(r) = 400 /\ received[r].body = BodyEmptyId
    /\ ~client

\* C16 as claimed: a request answered 401 or 400 leaves the link
\* collection and the limiter's stored state of every identity as they
\* were.
C16_NoSideEffects ==
  [][\A r \in Reqs :
       EndsAtGate(r, {401, 400}) =>
         /\ links' = links
         /\ rateLimitMap' = rateLimitMap]_vars

\* C16 amended: a request answered 401 for want of a bearer credential
\* changes nothing; one answered 401 for a credential outside the
\* allow-list, or 400, leaves the link collection as it was and changes the
\* limiter only for its own identity, whose timestamps still inside the
\* window are kept and followed by the time of this request.
C16_OnlyOwnAdmissionRecorded ==
  [][\A r \in Reqs :
       EndsAtGate(r, {401, 400}) =>
         /\ links' = links
         /\ IF req'[r].resp.error = "Bearer token required"
            THEN rateLimitMap' = rateLimitMap
            ELSE LET P == req'[r].botId
                     kept == SelectSeq(MapGet(rateLimitMap, P),
                               LAMBDA t : t > clock - windowMsDefault)
                 IN /\ MapGet(rateLimitMap', P) = Append(kept, clock)
                    /\ \A Q \in (DOMAIN rateLimitMap \cup
                                 DOMAIN rateLimitMap') \ {P} :
                         MapGet(rateLimitMap', Q) = MapGet(rateLimitMap, Q)]_vars

\* a request answered 400 and one answered 401 "Invalid token" each left an
\* admission under its identity
C16_Witness ==
  \E r1, r2 \in Reqs :
    /\ Handled(r1) /\ Status(r1) = 400 /\ req[r1].botId = "a"
    /\ Handled(r2) /\ Status(r2) = 401 /\ Error(r2) = "Invalid token"
    /\ req[r2].botId = "anonymous"
    /\ Len(MapGet(rateLimitMap, "anonymous")) = 1
    /\ Len(MapGet(rateLimitMap, "a")) = GateAdmissions("a") + 1

\* the urls of the sample texts, worked out by hand from the pattern
\* https?://[^\s]+ (case-insensitive), with the characters . , ) ; ] " '
\* stripped from the end and repetitions of a url left out
ExpectedUrls(text) ==
  CASE text = TextA -> <<"http://x.test/a">>
    [] text = TextAB -> <<"http://x.test/a", "HTTPS://y.test/b">>
    [] text = TextPunct -> <<"HTTP://x.test/a", "http://x.test/a">>
    [] OTHER -> <<>>

IsSuffix(s, t) ==
  /\ Len(s) <= Len(t)
  /\ s = SubSeq(t, Len(t) - Len(s) + 1, Len(t))

PassesGate(r) ==
  /\ Handled(r)
  /\ HasBearer(r)
  /\ Credential(r) \in AllowList
  /\ AdmittedBefore(r) < maxRequestsDefault
  /\ "tweet_text" \in DOMAIN received[r].body
  /\ received[r].body.tweet_text \notin {"", Undefined}
  /\ received[r].body.tweet_id \notin {"", Undefined}

\* C17: the urls still to be merged are always a tail of the trimmed,
\* distinct matches of the tweet text in order of first occurrence, and an
\* ingest on an empty collection ends with 200, one record per such url in
\* that order and inserted equal to their number (one record and
\* inserted = 1 for "see http://x.test/a. and http://x.test/a,").
C17_ExtractAndMerge ==
  /\ \A r \in Reqs :
       req[r].pc \in {"merge", "insert"} =>
         /\ req[r].todo # <<>>
         /\ IsSuffix(req[r].todo, ExpectedUrls(received[r].body.tweet_text))
  /\ (/\ PassesGate(1)
      /\ ExpectedUrls(received[1].body.tweet_text) # <<>>
      /\ req[1].pc = "done"
      /\ req[2].pc = "idle")
     => /\ Status(1) = 200
        /\ req[1].resp.inserted =
             Len(ExpectedUrls(received[1].body.tweet_text))
        /\ [i \in 1..Len(links) |-> links[i].url] =
             ExpectedUrls(received[1].body.tweet_text)

\* the same with a store that applies the update document as written
C17_ExtractAndMergeIfApplied ==
  conflictPolicy = "apply" => C17_ExtractAndMerge

C17_Reached ==
  /\ PassesGate(1) /\ received[1].body.tweet_text = TextA
  /\ Status(1) = 200 /\ req[1].resp.inserted = 1 /\ Len(links) = 1

\* C18: an ingest that passes the gate with tweet_text and tweet_id but
\* without a url in the text is answered 200 with inserted 0 and updated 0,
\* and the link collection is left as it was.
C18_NoUrlIsNoOp ==
  [][\A r \in Reqs :
       (/\ req[r].pc = "idle"
        /\ req'[r].pc # "idle"
        /\ PassesGate(r)'
        /\ ExpectedUrls(received'[r].body.tweet_text) = <<>>)
       => /\ req'[r].pc = "done"
          /\ req'[r].resp.status = 200
          /\ links' = links
          /\ "inserted" \in DOMAIN req'[r].resp
          /\ req'[r].resp.inserted = 0
          /\ "updated" \in DOMAIN req'[r].resp
          /\ req'[r].resp.updated = 0]_vars

\* the same without the updated count, which the response does not carry
C18_NoUrlIsNoOpButUpdated ==
  [][\A r \in Reqs :
       (/\ req[r].pc = "idle"
        /\ req'[r].pc # "idle"
        /\ PassesGate(r)'
        /\ ExpectedUrls(received'[r].body.tweet_text) = <<>>)
       => /\ req'[r].pc = "done"
          /\ req'[r].resp.status = 200
          /\ links' = links
          /\ "inserted" \in DOMAIN req'[r].resp
          /\ req'[r].resp.inserted = 0
          /\ "updated" \notin DOMAIN req'[r].resp]_vars

(***************************************************************************)
(* Properties of the read side.                                            *)
(***************************************************************************)
\* the identities named by the records of a collection, as posters or as
\* members of seen_by_bots
NamedBots(col) ==
  ({col[i].bot_id : i \in 1..Len(col)}
     \cup UNION {Elems(col[i].seen_by_bots) : i \in 1..Len(col)})
    \ {Undefined, ""}

\* C19: the activeBots of a stats response is the number of identities
\* the collection names, as bot_id or as a member of seen_by_bots, at the
\* time of the aggregation; it is 2 when the collection holds a url that
\* identity a inserted and identity b then resubmitted.
C19_ActiveBots ==
  [][(reader.pc = "aggregate" /\ reader'.pc = "done"
      /\ reader'.resp.status = 200)
     => /\ reader'.resp.activeBots = Cardinality(NamedBots(links))
        /\ (\E i \in 1..Len(links) :
              /\ links[i].bot_id = "b"
              /\ links[i].seen_by_bots = <<"a", "b">>
              /\ NamedBots(links) = {"a", "b"})
           => reader'.resp.activeBots = 2]_vars

\* stats answered 2 on a collection whose posters are all b, one record of
\* it first inserted by a
C19_Witness ==
  /\ reader.pc = "done" /\ reader.op = "stats"
  /\ reader.resp.status = 200 /\ reader.resp.activeBots = 2
  /\ \A i \in 1..Len(links) : links[i].bot_id = "b"
  /\ \E i \in 1..Len(links) : links[i].seen_by_bots = <<"a", "b">>
  /\ \A r \in Reqs : req[r].pc = "done"

\* the number a page or limit parameter stands for
Supplied(v) ==
  CASE v = "0" -> 0 [] v = "-2" -> -2 [] v = "1" -> 1 [] v = "2" -> 2
    [] v = "150" -> 150

NotANumber == {Undefined, "", "abc"}

Classified == NotANumber \cup {"0", "-2", "1", "2", "150"}

ExpectedPage(v) ==
  IF v \in NotANumber THEN 1
  ELSE IF Supplied(v) < 1 THEN 1 ELSE Supplied(v)

ExpectedLimit(v) ==
  IF v \in NotANumber THEN 50
  ELSE IF Supplied(v) < 1 THEN 1
  ELSE IF Supplied(v) > 100 THEN 100 ELSE Supplied(v)

Parsed == reader.op = "links" /\ reader.pc \in {"count", "find"}

\* C20: whatever page and limit are sent, the page used is the one sent
\* or 1 if that is less, 1 when none is sent or it is no number; the limit
\* used is the one sent brought into 1..100, 50 when none is sent or it is
\* no number; and skip is (page - 1) * limit.
C20_PageAndLimit ==
  Parsed =>
    /\ reader.query.page \in Classified =>
         reader.pageNum = ExpectedPage(reader.query.page)
    /\ reader.query.limit \in Classified =>
         reader.limitNum = ExpectedLimit(reader.query.limit)
    /\ reader.skip = (reader.pageNum - 1) * reader.limitNum

\* the same for every limit but 0
C20_PageAndLimitButZero ==
  (Parsed /\ reader.query.limit # "0") => C20_PageAndLimit

\* the links handler has answered in the paginated shape
Paginated ==
  /\ reader.op = "links" /\ reader.pc = "done"
  /\ reader.resp.status = 200
  /\ "pagination" \in DOMAIN reader.resp

\* the records of the collection the request's filter lets through
MatchCount == Cardinality(Found(links, Filter(reader.query)))

\* the least t with t * L >= N
Ceil(N, L) == CHOOSE t \in 0..N : t * L >= N /\ (t - 1) * L < N

PageSize(N, L, p) ==
  LET rest == IF N - (p - 1) * L < 0 THEN 0 ELSE N - (p - 1) * L
  IN IF L < rest THEN L ELSE rest

\* C21: on a collection that stays as it is, a paginated response for
\* page p with limit L and N matching records holds
\* min(L, max(0, N - (p-1)L)) records, totalItems N, totalPages ceil(N/L),
\* hasNext exactly when p < totalPages and hasPrev exactly when p > 1; with
\* 120 records and limit 50 the pages 1 and 2 hold 50 records, page 3 holds
\* 20, hasNext is false on page 3 and hasPrev is false on page 1.
C21_Pagination ==
  Paginated =>
    LET pg == reader.resp.pagination
        N == MatchCount
        L == pg.itemsPerPage
        p == pg.currentPage
    IN /\ Len(reader.resp.links) = PageSize(N, L, p)
       /\ pg.totalItems = N
       /\ pg.totalPages = Ceil(N, L)
       /\ pg.hasNext <=> p < pg.totalPages
       /\ pg.hasPrev <=> p > 1
       /\ (Len(links) = 120 /\ reader.query = Query(reader.query.page, "50"))
          => /\ p \in {1, 2} => Len(reader.resp.links) = 50
             /\ p = 3 => (Len(reader.resp.links) = 20 /\ ~pg.hasNext)
             /\ p = 1 => ~pg.hasPrev
             /\ p = 4 => Len(reader.resp.links) = 0

\* page 3 of 120 records with limit 50 was answered with 20 records
C21_Witness ==
  /\ Paginated
  /\ Len(links) = 120
  /\ reader.query = Query("3", "50")
  /\ Len(reader.resp.links) = 20
  /\ reader.resp.pagination.totalPages = 3

\* the links handler has answered 200
Answered ==
  /\ reader.op = "links" /\ reader.pc = "done"
  /\ reader.resp.status = 200

\* the flat shape: the records and nothing else
LegacyShape == DOMAIN reader.resp = {"status", "links"}

\* a parameter sent without a value counts as not sent
Sent(v) == v \notin {Undefined, ""}

\* C22: on a collection that stays as it is, the response has the flat
\* shape exactly when neither page nor limit is sent and at most 500
\* records match, and then it holds all of them; 500 records without page
\* and limit are answered flat with all 500, 501 records in the paginated
\* shape, and a request that sends page or limit is paginated.
C22_LegacyShape ==
  Answered =>
    /\ LegacyShape <=> (/\ ~Sent(reader.query.page)
                        /\ ~Sent(reader.query.limit)
                        /\ MatchCount <= 500)
    /\ ~LegacyShape => "pagination" \in DOMAIN reader.resp
    /\ LegacyShape =>
         {reader.resp.links[i] : i \in DOMAIN reader.resp.links}
           = {links[i] : i \in Found(links, Filter(reader.query))}
    /\ LegacyShape => Len(reader.resp.links) = MatchCount
    /\ (reader.query = NoQuery /\ Len(links) = 500)
         => (LegacyShape /\ Len(reader.resp.links) = 500)
    /\ (reader.query = NoQuery /\ Len(links) = 501) => ~LegacyShape

\* 500 records were answered flat
C22_Witness ==
  /\ Answered /\ LegacyShape
  /\ reader.query = NoQuery
  /\ Len(links) = 500 /\ Len(reader.resp.links) = 500

\* 501 records were answered in the paginated shape without page or limit
C22_Reached501 ==
  /\ Answered /\ ~LegacyShape
  /\ reader.query = NoQuery
  /\ Len(links) = 501 /\ Len(reader.resp.links) = 50

\* the scores of a severity bucket
InBucket(score, v) ==
  CASE v = "high" -> score >= 7
    [] v = "medium" -> score >= 4 /\ score < 7
    [] v = "low" -> score < 4
    [] OTHER -> TRUE

Buckets == {"high", "medium", "low"}

\* C23: a request with severity high, medium or low and no other filter is
\* answered with records of that bucket only, all of them in the flat
\* shape and their number as totalItems in the paginated one; without
\* severity every record matches; and every record of the collection
\* matches exactly one of the three severities.
C23_SeverityBuckets ==
  /\ (/\ Answered
      /\ Filter(reader.query).search = ""
      /\ Filter(reader.query).dateFrom = ""
      /\ Filter(reader.query).dateTo = ""
      /\ Filter(reader.query).severity \in Buckets \cup {""})
     => LET v == Filter(reader.query).severity
            bucket == {i \in 1..Len(links) :
                         InBucket(links[i].severity_score, v)}
        IN /\ \A k \in DOMAIN reader.resp.links :
                InBucket(reader.resp.links[k].severity_score, v)
           /\ LegacyShape =>
                {reader.resp.links[k] : k \in DOMAIN reader.resp.links}
                  = {links[i] : i \in bucket}
           /\ ~LegacyShape =>
                reader.resp.pagination.totalItems = Cardinality(bucket)
  /\ \A i \in 1..Len(links) :
       Cardinality({v \in Buckets :
                      MatchesFilter(links[i],
                                    Filter([NoQuery EXCEPT !.severity = v]))})
         = 1

\* the 36 records with scores 7, 8, 9 among 120 were returned for high
C23_Witness ==
  /\ Answered /\ LegacyShape
  /\ reader.query.severity = "high"
  /\ Len(links) = 120
  /\ Len(reader.resp.links) = 36
  /\ \E k \in DOMAIN reader.resp.links :
       reader.resp.links[k].severity_score = 7

\* the urls the filter of the observed responses lets through
MatchUrls(key) == {links[i].url : i \in Found(links, key.filter)}

\* one observed response for each of the pages 1..T
Selections(T) ==
  {sel \in [1..T -> served] : \A p \in 1..T : sel[p].page = p}

\* where the url u stands in the responses sel: page and position
Places(sel, u) ==
  {pk \in UNION {{<<q, j>> : j \in DOMAIN sel[q].urls} : q \in DOMAIN sel} :
     sel[pk[1]].urls[pk[2]] = u}

\* C30: on a collection that stays as it is, responses for one filter and
\* one limit, one for each of the pages 1..totalPages, hold every matching
\* record exactly once between them and no other, and a response for a
\* page beyond totalPages holds nothing.
C30_PagesPartition ==
  \A e \in served :
    /\ e.page > e.pagination.totalPages => e.urls = <<>>
    /\ \A sel \in Selections(e.pagination.totalPages) :
         /\ \A u \in MatchUrls(e.key) : Cardinality(Places(sel, u)) = 1
         /\ \A p \in DOMAIN sel : \A k \in DOMAIN sel[p].urls :
              sel[p].urls[k] \in MatchUrls(e.key)

\* the same for collections in which no two records have equal sort keys
C30_PagesPartitionIfDistinctKeys ==
  ~HasTies(links, Sorted(links, Filter(NoQuery))) => C30_PagesPartition

\* the three pages of three records, limit 1, were all served
C30_Reached ==
  /\ Len(links) = 3
  /\ \E sel \in Selections(3) : \A p \in 1..3 : Len(sel[p].urls) = 1

(***************************************************************************)
(* Properties of the register handler.                                     *)
(***************************************************************************)
StoredWith(botId) ==
  {i \in 1..Len(registered_bots) : registered_bots[i].botId = botId}

\* C24: registered_bots never holds two records with the same bot id, and
\* no two register requests for names with the same derived id are both
\* answered 201, whether they run one after the other or at the same time.
C24_OneRecordPerBotId ==
  /\ \A i, j \in 1..Len(registered_bots) :
       registered_bots[i].botId = registered_bots[j].botId => i = j
  /\ \A g, h \in Regs :
       (/\ reg[g].resp.status = 201
        /\ reg[h].resp.status = 201
        /\ reg[g].botId = reg[h].botId) => g = h

\* a register request whose findOne returns while a record with its id is
\* stored is answered 409 and stores nothing
C24_ConflictWhenStored ==
  [][\A g \in Regs :
       (/\ reg[g].pc = "findOne"
        /\ reg'[g].pc # "findOne"
        /\ StoredWith(reg[g].botId) # {})
       => /\ reg'[g].pc = "done"
          /\ reg'[g].resp.status \in {409, 500}
          /\ registered_bots' = registered_bots]_vars

C24_Reached409 ==
  \E g, h \in Regs :
    /\ reg[g].resp.status = 201 /\ reg[g].botName = "Bot A"
    /\ reg[h].resp.status = 409 /\ reg[h].botName = "bot-a"
    /\ Len(registered_bots) = 1

\* ingest r presented the token registration g returned
PresentsTokenOf(r, g) ==
  /\ reg[g].pc = "done"
  /\ reg[g].resp.status = 201
  /\ Handled(r)
  /\ received[r].auth = "Bearer " \o reg[g].resp.token

\* C25: the allow-list of the ingest handler is the one the process was
\* started with, whatever was registered, and an ingest that presents a
\* token a registration returned is answered 401 "Invalid token".
C25_RegisterLeavesAllowList ==
  /\ VALID_TOKENS = "a.1,b.1"
  /\ \A r \in Reqs, g \in Regs :
       PresentsTokenOf(r, g) =>
         /\ reg[g].resp.token \notin AllowList
         /\ req[r].pc = "done"
         /\ req[r].resp = [status |-> 401, error |-> "Invalid token"]

\* "Bot A" was registered and an ingest with its token was rejected
C25_Witness ==
  \E r \in Reqs, g \in Regs :
    /\ PresentsTokenOf(r, g)
    /\ reg[g].botId = "bota"
    /\ Len(registered_bots) >= 1
    /\ Status(r) = 401 /\ Error(r) = "Invalid token"
    /\ req[r].botId = "bota"

\* ------------------------------------------------------------------------
\* Storage failures in the ingest handler
\* ------------------------------------------------------------------------

\* request r has just taken a step
Stepped(r) == req'[r] # req[r]

\* the step of request r left the store and the observer's notes alone
NothingStored == links' = links /\ obs' = obs

\* C26: a request that is creating indexes always goes on to the merge of
\* all its urls, whether the indexes were created or not; a request whose
\* updateOne did not return (nothing stored, nothing counted) is answered
\* 500 in that very step; and nothing is tried again: each step of the merge
\* either ends the request or moves on to the insert half or to the next
\* url, and an answered request takes no further step.
C26_IndexFailureSwallowedMergeFailureFatal ==
  [][\A r \in Reqs :
       /\ (req[r].pc = "index" /\ Stepped(r)) =>
            /\ req'[r].pc = "merge"
            /\ req'[r].todo = Dedup(req[r].urls)
            /\ NothingStored
       /\ (req[r].pc \in {"merge", "insert"} /\ Stepped(r) /\ obs' = obs) =>
            \/ req[r].pc = "merge" /\ req'[r].pc = "insert" /\ links' = links
            \/ /\ req'[r].pc = "done"
               /\ req'[r].resp = ServerError
               /\ links' = links
       /\ (req[r].pc \in {"merge", "insert"} /\ Stepped(r) /\
           req'[r].pc = "merge") =>
            /\ req'[r].todo = Tail(req[r].todo)
            /\ obs' # obs
       /\ req[r].pc = "done" => req'[r] = req[r]]_vars

\* identity b merged its first url although the unique index was never
\* created (the collection holds no duplicate that could have prevented it),
\* and its request was then answered 500 by a failure at its second url
C26_Witness ==
  \E r \in Reqs :
    /\ req[r].pc = "done"
    /\ req[r].resp = ServerError
    /\ req[r].botId = "b"
    /\ \A o \in Reqs \ {r} : req[o].botId # "b"
    /\ \E url \in DOMAIN obs : "b" \in obs[url].bots
    /\ ~uniqueIndex
    /\ ~HasDuplicates(links)

\* ------------------------------------------------------------------------
\* Link records
\* ------------------------------------------------------------------------

\* C27: every stored link record has a non-empty seen_by_bots that contains
\* both its bot_id and its first_seen_bot.
C27_SubmittersAreSeen ==
  \A i \in 1..Len(links) :
    /\ Len(links[i].seen_by_bots) > 0
    /\ links[i].bot_id \in Elems(links[i].seen_by_bots)
    /\ links[i].first_seen_bot \in Elems(links[i].seen_by_bots)

\* a record created by identity a and last written by identity b
C27_Witness ==
  \E i \in 1..Len(links) :
    /\ links[i].first_seen_bot = "a"
    /\ links[i].bot_id = "b"
    /\ links[i].seen_by_bots = <<"a", "b">>

\* the activeBots the stats handler answers when its aggregation runs over
\* collection col
ActiveBots(col) ==
  IF col = <<>> THEN 0 ELSE Cardinality(AllBots(Aggregate(col, 0)))

\* the identities for which an updateOne has returned
Mergers == UNION {obs[u].bots : u \in DOMAIN obs}

\* the identities whose every request so far was turned away
Rejected ==
  {req[r].botId : r \in {o \in Reqs : req[o].pc = "done" /\
                                      Status(o) \in {400, 401, 429}}}
    \ Mergers

\* C28: in every state of the concurrent ingests, the active_bots that
\* stats would answer is the number of distinct identities that have merged
\* at least one url; identities that only had requests rejected are not
\* among them.
C28_ActiveBotsAreMergers ==
  /\ ActiveBots(links) = Cardinality(Mergers)
  /\ links # <<>> =>
       /\ AllBots(Aggregate(links, 0)) = Mergers
       /\ AllBots(Aggregate(links, 0)) \cap Rejected = {}

\* identity a merged a url, identity b resubmitted it and is now the bot_id
\* of every record: stats still counts both
C28_Witness ==
  /\ Mergers = {"a", "b"}
  /\ links # <<>>
  /\ \A i \in 1..Len(links) : links[i].bot_id = "b"
  /\ ActiveBots(links) = 2

\* identity a was only turned away, identity b merged: stats counts one
C28_ReachedRejected ==
  /\ Rejected = {"a"}
  /\ Mergers = {"b"}
  /\ ActiveBots(links) = 1

\* the fields every submission writes
SubmissionFields ==
  {"bot_id", "updated_at", "tweet_id", "severity_score", "categories",
   "matched_keywords", "tweet_text"}

\* record d carries in all of these fields what ingest r submitted, under
\* r's identity and one server time of r
FromIngest(d, r) ==
  /\ Handled(r)
  /\ \E now \in StartClock..clock :
       /\ req[r].pc \in {"merge", "insert"} => now = req[r].now
       /\ \A f \in SubmissionFields :
            d[f] = Metadata(received[r].body, req[r].botId, now)[f]

\* C29: in every state of the concurrent ingests, the bot_id, updated_at,
\* tweet_id, severity_score, categories, matched_keywords and tweet_text of
\* each stored record are those of one single ingest.
C29_RecordFromOneIngest ==
  \A i \in 1..Len(links) : \E r \in Reqs : FromIngest(links[i], r)

\* two identities merged the same url while both requests were under way,
\* with different submissions
C29_Witness ==
  \E u \in DOMAIN obs :
    /\ obs[u].bots = {"a", "b"}
    /\ ~obs[u].alone
    /\ obs[u].first.body # obs[u].last.body
    /\ Records(u) # {}

(***************************************************************************)
(* The present links handler against the original one.                     *)
(***************************************************************************)
\* the responses the original handler can give on collection col when the
\* store does not fail
OriginalResponses(col) ==
  {[status |-> 200, links |-> Docs(col, SkipLimit(o, 0, OriginalLimit))] :
     o \in OriginalOrders(col)}

\* a request without query parameters was answered 200 by the present
\* handler
AnsweredPlain ==
  /\ reader.pc = "done"
  /\ reader.op = "links"
  /\ reader.query = NoQuery
  /\ reader.resp.status = 200

\* C31: on a collection of at most 500 records, what the present handler
\* answers to a request without query parameters is a response the original
\* handler can give on that collection: only status and links, links holding
\* every record once, by descending updated_at.
C31_PlainRequestAsOriginal ==
  (AnsweredPlain /\ Len(links) <= OriginalLimit) =>
    /\ DOMAIN reader.resp = {"status", "links"}
    /\ reader.resp \in OriginalResponses(links)
    /\ Len(reader.resp.links) = Len(links)
    /\ Elems(reader.resp.links) = Elems(links)
    /\ \A i, j \in 1..Len(reader.resp.links) :
         i < j => reader.resp.links[i].updated_at
                    >= reader.resp.links[j].updated_at

\* 500 records answered in the original shape with the newest first
C31_Witness ==
  /\ AnsweredPlain
  /\ Len(links) = OriginalLimit
  /\ Len(reader.resp.links) = OriginalLimit
  /\ reader.resp.links[1].url = Url(OriginalLimit)

\* the present handler answered on records with equal updated_at and
\* different created_at, where the original can give two orders
C31_ReachedTies ==
  /\ AnsweredPlain
  /\ links = StoredSameTime
  /\ Cardinality(OriginalResponses(links)) = 2

\* the original handler itself answered on the collection whose created_at
\* runs against its updated_at
C31_ReachedOriginal ==
  /\ reader.pc = "done"
  /\ reader.op = "original"
  /\ reader.resp.status = 200
  /\ links = StoredBacklog
  /\ reader.resp.links[1].url = Url(1)

\* with 501 records the present handler answers in the paginated shape,
\* which the original never gives
C31_Reached501 ==
  /\ AnsweredPlain
  /\ Len(links) = OriginalLimit + 1
  /\ reader.resp \notin OriginalResponses(links)

(***************************************************************************)
(* The counts of an ingest response.                                       *)
(***************************************************************************)
\* request r is answered 200 in this step
Succeeds(r) ==
  /\ req[r].pc # "done"
  /\ req'[r].pc = "done"
  /\ req'[r].resp.status = 200

\* request r is answered 500 in this step
Fails(r) == req'[r].pc = "done" /\ req'[r].resp.status = 500

\* the inserted count of request r after this step
InsertedAfter(r) ==
  IF req'[r].pc = "done" THEN req'[r].resp.inserted ELSE req'[r].inserted

\* every step of request r adds to the collection exactly what it adds to
\* r's inserted count, which starts at 0
GrowsByInserted(r) ==
  /\ (Stepped(r) /\ req[r].pc \notin {"merge", "insert"}) =>
       /\ links' = links
       /\ ~Fails(r) /\ req'[r].resp.status \notin {400, 401, 405, 429}
            => InsertedAfter(r) = 0
  /\ (Stepped(r) /\ req[r].pc \in {"merge", "insert"}) =>
       IF Fails(r) THEN links' = links
       ELSE Len(links') - Len(links) = InsertedAfter(r) - req[r].inserted

\* the text request r was called with
TextOf(r) == received'[r].body.tweet_text

\* the response of r counts at most the distinct trimmed urls and reports
\* the number of matches
CountsOf(r) ==
  /\ {"inserted", "updated", "processed_urls"} \subseteq DOMAIN req'[r].resp
  /\ req'[r].resp.inserted + req'[r].resp.updated
       <= Cardinality(Elems(ExtractUrls(TextOf(r))))
  /\ req'[r].resp.processed_urls = Len(URL_REGEX(TextOf(r)))

\* C32: every ingest answered 200 reports inserted + updated of at most the
\* number of distinct trimmed urls of its text and processed_urls equal to
\* the number of url matches before deduplication, and the collection grows
\* by exactly its inserted count.
C32_Counts ==
  [][\A r \in Reqs :
       /\ GrowsByInserted(r)
       /\ Succeeds(r) => CountsOf(r)]_vars

\* the same for the ingests whose text holds a url; one without a url is
\* answered with inserted 0 and leaves the collection as it is
C32_CountsWhenUrls ==
  [][\A r \in Reqs :
       /\ GrowsByInserted(r)
       /\ Succeeds(r) =>
            IF Len(URL_REGEX(TextOf(r))) > 0 THEN CountsOf(r)
            ELSE req'[r].resp.inserted = 0 /\ links' = links]_vars

\* an ingest of the text with one url written twice was answered with
\* processed_urls 2 and inserted + updated 1
C32_ReachedMore ==
  \E r \in Reqs :
    /\ req[r].pc = "done"
    /\ Status(r) = 200
    /\ received[r].body.tweet_text = TextA
    /\ req[r].resp.processed_urls = 2
    /\ req[r].resp.inserted + req[r].resp.updated = 1

\* an ingest of the text with two urls inserted both
C32_ReachedTwo ==
  \E r \in Reqs :
    /\ req[r].pc = "done"
    /\ Status(r) = 200
    /\ req[r].resp.inserted = 2
    /\ Len(links) >= 2

====
